---- MODULE Spec2Model ----
(***************************************************************************)
(* Dynamic resource allocation: the AllocationEngine of                    *)
(* src/allocation_engine.py and the EventHandler of src/event_handler.py.  *)
(*                                                                         *)
(* The catalog is the engine's four dictionaries.  A handler is one        *)
(* operator from catalog to catalog, translated statement by statement,    *)
(* and one action applies it: the processing model is single-threaded, so  *)
(* a handler (with every pass it triggers) is one step.                    *)
(*                                                                         *)
(* Abstractions: a timestamp (datetime.now()) is None or Now; a float      *)
(* quantity or cost is an integer; the allocation score is the exact       *)
(* rational score times ScoreScale.                                        *)
(***************************************************************************)
EXTENDS Integers, Sequences, FiniteSets, TLC

VARIABLES operators, machines, materials, work_orders,
          last_reallocation_time, event_queue, event_log, pc, ret

vars == <<operators, machines, materials, work_orders,
          last_reallocation_time, event_queue, event_log, pc, ret>>

None == "None"
Now == "now"

\* models.py enums
AVAILABLE == "available"
ASSIGNED == "assigned"
BREAK == "break"
UNAVAILABLE == "unavailable"
IDLE == "idle"
RUNNING == "running"
MAINTENANCE == "maintenance"
BREAKDOWN == "breakdown"
PENDING == "pending"
IN_PROGRESS == "in_progress"
COMPLETED == "completed"
BLOCKED == "blocked"

OperatorStatus == {AVAILABLE, ASSIGNED, BREAK, UNAVAILABLE}
MachineStatus == {IDLE, RUNNING, MAINTENANCE, BREAKDOWN}
WorkOrderStatus == {PENDING, IN_PROGRESS, COMPLETED, BLOCKED}

\* Bounds of the model
MaxQty == 2
MaxDelivered == 1

\* Insertion order of the engine's dictionaries (dict iteration order).
OperatorOrder == <<"OP1", "OP2">>
MachineOrder == <<"M1", "M2">>
WorkOrderOrder == <<"WO1", "WO2", "WO3">>

Range(s) == {s[i] : i \in 1..Len(s)}

\* dict.values() of d, in insertion order, as the sequence of its keys
Values(order, d) == SelectSeq(order, LAMBDA k : k \in DOMAIN d)

\* The catalog: the engine's dictionaries
Cat ==
  [operators |-> operators, machines |-> machines, materials |-> materials,
   work_orders |-> work_orders, last_reallocation_time |-> last_reallocation_time]

\* ret: the last call of a query function, with the value it returned
Call(fn, args, value) == [fn |-> fn, args |-> args, value |-> value]
NoCall == Call("none", <<>>, None)

----------------------------------------------------------------------------
(* allocation_engine.py *)

calculate_distance(location1, location2) ==
  IF location1 = location2 THEN 0 ELSE 10

max_distance == 100
max_cycle_time == 120
max_cost == 100
ScoreScale == 6000

Min(a, b) == IF a < b THEN a ELSE b
Max(a, b) == IF a > b THEN a ELSE b

RECURSIVE SumLevels(_, _, _)
SumLevels(skills, levels, i) ==
  IF i > Len(skills) THEN 0
  ELSE (IF skills[i] \in DOMAIN levels THEN levels[skills[i]] ELSE 0)
       + SumLevels(skills, levels, i + 1)

\* The weights 0.4, 0.3, 0.2, 0.1 in tenths
skill_weight == 4
proximity_weight == 3
efficiency_weight == 2
cost_weight == 1

\* A term's weight times ScoreScale
Weighted(w) == (w * ScoreScale) \div 10

\* The four terms, each times its weight times ScoreScale.  The divisions
\* are exact for the values of the model (at most 3 required skills,
\* distances 0 or 10, integer cycle times and costs).
SkillTerm(wo, op) ==
  IF Len(wo.required_skills) = 0 THEN 0
  ELSE (Weighted(skill_weight)
          * SumLevels(wo.required_skills, op.skill_levels, 1))
         \div (5 * Len(wo.required_skills))

ProximityTerm(wo, op, m) ==
  LET twice_avg == calculate_distance(op.location, m.location)
                   + calculate_distance(m.location, wo.location)
  IN  Weighted(proximity_weight)
      - (Weighted(proximity_weight) * Min(twice_avg, 2 * max_distance))
          \div (2 * max_distance)

\* Mutant: the efficiency term is not clamped
EfficiencyTerm_Unclamped(m) ==
  IF m.cycle_time = 0 THEN Weighted(efficiency_weight) \div 2
  ELSE Weighted(efficiency_weight)
         - (Weighted(efficiency_weight) * m.cycle_time) \div max_cycle_time

EfficiencyTerm(m) ==
  IF m.cycle_time = 0 THEN Weighted(efficiency_weight) \div 2
  ELSE Max(0, Min(Weighted(efficiency_weight)
                    - (Weighted(efficiency_weight) * m.cycle_time)
                        \div max_cycle_time,
                  Weighted(efficiency_weight)))

CostTerm(op, m) ==
  LET total_cost == op.hourly_cost + m.operating_cost_per_hour
  IN  Weighted(cost_weight)
      - (Weighted(cost_weight) * Min(total_cost, max_cost)) \div max_cost

calculate_allocation_score(wo, op, m) ==
  SkillTerm(wo, op) + ProximityTerm(wo, op, m) + EfficiencyTerm(m) + CostTerm(op, m)

\* Reasons of check_hard_constraints, one tag per message (with its argument)
Reason(tag, arg) == [tag |-> tag, arg |-> arg]
AllSatisfied == Reason("all_constraints_satisfied", None)

RECURSIVE CheckSkills(_, _, _)
CheckSkills(wo, op, i) ==
  IF i > Len(wo.required_skills) THEN AllSatisfied
  ELSE IF wo.required_skills[i] \notin op.skills
       THEN Reason("operator_missing_skill", wo.required_skills[i])
       ELSE CheckSkills(wo, op, i + 1)

RECURSIVE CheckMaterials(_, _, _)
CheckMaterials(mats, wo, i) ==
  IF i > Len(wo.required_materials) THEN AllSatisfied
  ELSE LET mat_req == wo.required_materials[i]
       IN  IF mat_req.material_id \notin DOMAIN mats
           THEN Reason("material_not_found", mat_req.material_id)
           ELSE LET material == mats[mat_req.material_id]
                    available == material.quantity_available - material.quantity_reserved
                IN  IF available < mat_req.quantity
                    THEN Reason("insufficient_material", mat_req.material_id)
                    ELSE CheckMaterials(mats, wo, i + 1)

\* Mutant: the resources' status is checked before the materials
check_hard_constraints_StatusFirst(mats, wo, op, m) ==
  LET skill == CheckSkills(wo, op, 1)
      mat == CheckMaterials(mats, wo, 1)
      reason ==
        IF skill # AllSatisfied THEN skill
        ELSE IF wo.required_machine_capability \notin m.capabilities
             THEN Reason("machine_lacks_capability", None)
        ELSE IF op.current_status # AVAILABLE
             THEN Reason("operator_not_available", op.current_status)
        ELSE IF m.current_status # IDLE
             THEN Reason("machine_not_idle", m.current_status)
        ELSE IF mat # AllSatisfied THEN mat
        ELSE AllSatisfied
  IN  [valid |-> reason = AllSatisfied, reason |-> reason]

check_hard_constraints(mats, wo, op, m) ==
  LET skill == CheckSkills(wo, op, 1)
      mat == CheckMaterials(mats, wo, 1)
      reason ==
        IF skill # AllSatisfied THEN skill
        ELSE IF wo.required_machine_capability \notin m.capabilities
             THEN Reason("machine_lacks_capability", None)
        ELSE IF mat # AllSatisfied THEN mat
        ELSE IF op.current_status # AVAILABLE
             THEN Reason("operator_not_available", op.current_status)
        ELSE IF m.current_status # IDLE
             THEN Reason("machine_not_idle", m.current_status)
        ELSE AllSatisfied
  IN  [valid |-> reason = AllSatisfied, reason |-> reason]

\* Mutant: priority ascending
Before_PriorityAscending(a, b) ==
  \/ a.priority < b.priority
  \/ a.priority = b.priority /\ a.deadline < b.deadline
  \/ a.priority = b.priority /\ a.deadline = b.deadline
     /\ a.estimated_duration < b.estimated_duration

\* sort_values(by=[priority, deadline, duration], ascending=[False, True, True])
Before(a, b) ==
  \/ a.priority > b.priority
  \/ a.priority = b.priority /\ a.deadline < b.deadline
  \/ a.priority = b.priority /\ a.deadline = b.deadline
     /\ a.estimated_duration < b.estimated_duration

\* Stable: x goes after every element that does not come after it.
RECURSIVE SortedInsert(_, _, _)
SortedInsert(wos, sorted, x) ==
  IF sorted = <<>> THEN <<x>>
  ELSE IF Before(wos[x], wos[Head(sorted)]) THEN <<x>> \o sorted
       ELSE <<Head(sorted)>> \o SortedInsert(wos, Tail(sorted), x)

RECURSIVE SortValues(_, _, _)
SortValues(wos, seq, i) ==
  IF i = 0 THEN <<>>
  ELSE SortedInsert(wos, SortValues(wos, seq, i - 1), seq[i])

prioritize_work_orders(wos) ==
  LET pending_orders ==
        SelectSeq(Values(WorkOrderOrder, wos), LAMBDA w : wos[w].status = PENDING)
  IN  IF pending_orders = <<>> THEN <<>>
      ELSE SortValues(wos, pending_orders, Len(pending_orders))

NoAllocation == [found |-> FALSE, operator |-> None, machine |-> None, score |-> -1]

\* Mutant: the first valid pair is kept, whatever the later scores
RECURSIVE SearchFrom_FirstValid(_, _, _, _, _, _, _)
SearchFrom_FirstValid(cat, wo, ops, ms, i, j, best) ==
  IF i > Len(ops) THEN best
  ELSE IF j > Len(ms) THEN SearchFrom_FirstValid(cat, wo, ops, ms, i + 1, 1, best)
  ELSE LET operator == cat.operators[ops[i]]
           machine == cat.machines[ms[j]]
           valid == check_hard_constraints(cat.materials, wo, operator, machine).valid
           score == calculate_allocation_score(wo, operator, machine)
       IN  IF valid /\ ~best.found
           THEN SearchFrom_FirstValid(cat, wo, ops, ms, i, j + 1,
                  [found |-> TRUE, operator |-> ops[i], machine |-> ms[j],
                   score |-> score])
           ELSE SearchFrom_FirstValid(cat, wo, ops, ms, i, j + 1, best)

\* Mutant: a later pair with an equal score replaces the best so far
RECURSIVE SearchFrom_LastTie(_, _, _, _, _, _, _)
SearchFrom_LastTie(cat, wo, ops, ms, i, j, best) ==
  IF i > Len(ops) THEN best
  ELSE IF j > Len(ms) THEN SearchFrom_LastTie(cat, wo, ops, ms, i + 1, 1, best)
  ELSE LET operator == cat.operators[ops[i]]
           machine == cat.machines[ms[j]]
           valid == check_hard_constraints(cat.materials, wo, operator, machine).valid
           score == calculate_allocation_score(wo, operator, machine)
       IN  IF valid /\ score >= best.score
           THEN SearchFrom_LastTie(cat, wo, ops, ms, i, j + 1,
                  [found |-> TRUE, operator |-> ops[i], machine |-> ms[j],
                   score |-> score])
           ELSE SearchFrom_LastTie(cat, wo, ops, ms, i, j + 1, best)

\* The loop of find_best_allocation from pair (i, j) on, with the best so far
RECURSIVE SearchFrom(_, _, _, _, _, _, _)
SearchFrom(cat, wo, ops, ms, i, j, best) ==
  IF i > Len(ops) THEN best
  ELSE IF j > Len(ms) THEN SearchFrom(cat, wo, ops, ms, i + 1, 1, best)
  ELSE LET operator == cat.operators[ops[i]]
           machine == cat.machines[ms[j]]
           valid == check_hard_constraints(cat.materials, wo, operator, machine).valid
           score == calculate_allocation_score(wo, operator, machine)
       IN  IF valid /\ score > best.score
           THEN SearchFrom(cat, wo, ops, ms, i, j + 1,
                  [found |-> TRUE, operator |-> ops[i], machine |-> ms[j],
                   score |-> score])
           ELSE SearchFrom(cat, wo, ops, ms, i, j + 1, best)

find_best_allocation(cat, wo) ==
  LET available_operators ==
        SelectSeq(Values(OperatorOrder, cat.operators),
                  LAMBDA o : cat.operators[o].current_status = AVAILABLE)
      idle_machines ==
        SelectSeq(Values(MachineOrder, cat.machines),
                  LAMBDA m : cat.machines[m].current_status = IDLE)
  IN  SearchFrom(cat, wo, available_operators, idle_machines, 1, 1, NoAllocation)

\* The quantity of material k that the requirements reqs ask for in all
RECURSIVE RequiredQuantity(_, _)
RequiredQuantity(reqs, k) ==
  IF reqs = <<>> THEN 0
  ELSE (IF Head(reqs).material_id = k THEN Head(reqs).quantity ELSE 0)
       + RequiredQuantity(Tail(reqs), k)

\* Mutant: the loop reserves one requirement and stops
ReserveMaterials_FirstOnly(mats, reqs, i) ==
  IF i > Len(reqs) THEN mats
  ELSE [mats EXCEPT ![reqs[i].material_id].quantity_reserved =
                      @ + reqs[i].quantity]

RECURSIVE ReserveMaterials(_, _, _)
ReserveMaterials(mats, reqs, i) ==
  IF i > Len(reqs) THEN mats
  ELSE ReserveMaterials(
         [mats EXCEPT ![reqs[i].material_id].quantity_reserved =
                         @ + reqs[i].quantity],
         reqs, i + 1)

\* Mutant: the materials are reserved before the search, and the reservation
\* is left in place when the search finds no pair
allocate_resources_ReservesFirst(cat, work_order_id) ==
  IF work_order_id \notin DOMAIN cat.work_orders
  THEN [cat |-> cat, ok |-> FALSE]
  ELSE
    LET work_order == cat.work_orders[work_order_id]
        allocation == find_best_allocation(cat, work_order)
        reserved ==
          [k \in DOMAIN cat.materials |->
             [cat.materials[k] EXCEPT !.quantity_reserved =
                @ + RequiredQuantity(work_order.required_materials, k)]]
    IN  IF ~allocation.found
        THEN [cat |-> [cat EXCEPT !.materials = reserved,
                                  !.work_orders[work_order_id].status = BLOCKED],
              ok |-> FALSE]
        ELSE
          [cat |->
             [cat EXCEPT
                !.materials = reserved,
                !.work_orders[work_order_id] =
                   [@ EXCEPT !.assigned_operator = allocation.operator,
                             !.assigned_machine = allocation.machine,
                             !.status = IN_PROGRESS,
                             !.start_time = Now],
                !.operators[allocation.operator] =
                   [@ EXCEPT !.current_status = ASSIGNED,
                             !.current_work_order = work_order_id],
                !.machines[allocation.machine] =
                   [@ EXCEPT !.current_status = RUNNING,
                             !.current_work_order = work_order_id],
                !.last_reallocation_time = @ \cup {work_order_id}],
           ok |-> TRUE]

\* allocate_resources: the catalog after the call, and its return value
allocate_resources(cat, work_order_id) ==
  IF work_order_id \notin DOMAIN cat.work_orders
  THEN [cat |-> cat, ok |-> FALSE]
  ELSE
    LET work_order == cat.work_orders[work_order_id]
        allocation == find_best_allocation(cat, work_order)
    IN  IF ~allocation.found
        THEN [cat |-> [cat EXCEPT !.work_orders[work_order_id].status = BLOCKED],
              ok |-> FALSE]
        ELSE
          [cat |->
             [cat EXCEPT
                !.materials =
                   ReserveMaterials(@, work_order.required_materials, 1),
                !.work_orders[work_order_id] =
                   [@ EXCEPT !.assigned_operator = allocation.operator,
                             !.assigned_machine = allocation.machine,
                             !.status = IN_PROGRESS,
                             !.start_time = Now],
                !.operators[allocation.operator] =
                   [@ EXCEPT !.current_status = ASSIGNED,
                             !.current_work_order = work_order_id],
                !.machines[allocation.machine] =
                   [@ EXCEPT !.current_status = RUNNING,
                             !.current_work_order = work_order_id],
                !.last_reallocation_time = @ \cup {work_order_id}],
           ok |-> TRUE]

stability_buffer_minutes == 15

SecondsPerDay == 86400

\* timedelta.seconds: the seconds of the difference that are left once its
\* whole days are taken out
TimedeltaSeconds(elapsed) == elapsed % SecondsPerDay

\* now is the second datetime.now() returns; cat.last_reallocation_time maps
\* a work order to the second its allocation was recorded at.
\* time_since_last = seconds / 60 is compared in seconds.
should_reallocate(cat, work_order_id, now) ==
  IF cat.work_orders[work_order_id].progress > 50 THEN FALSE
  ELSE IF work_order_id \in DOMAIN cat.last_reallocation_time
          /\ TimedeltaSeconds(now - cat.last_reallocation_time[work_order_id])
               < stability_buffer_minutes * 60
       THEN FALSE
       ELSE TRUE

\* Mutant: the loop ends at the first order that cannot be allocated
RECURSIVE AllocateFrom_StopsAtBlocked(_, _, _)
AllocateFrom_StopsAtBlocked(res, prioritized_orders, i) ==
  IF i > Len(prioritized_orders) THEN res
  ELSE LET r == allocate_resources(res.cat, prioritized_orders[i])
       IN  IF r.ok
           THEN AllocateFrom_StopsAtBlocked(
                  [cat |-> r.cat, allocated |-> res.allocated + 1,
                   blocked |-> res.blocked, total |-> res.total],
                  prioritized_orders, i + 1)
           ELSE [cat |-> r.cat, allocated |-> res.allocated,
                 blocked |-> res.blocked + 1, total |-> res.total]

\* Mutant: the loop takes the prioritized orders from the last to the first
RECURSIVE AllocateFrom_LowestFirst(_, _, _)
AllocateFrom_LowestFirst(res, prioritized_orders, i) ==
  IF i > Len(prioritized_orders) THEN res
  ELSE LET r == allocate_resources(
                  res.cat, prioritized_orders[Len(prioritized_orders) + 1 - i])
       IN  AllocateFrom_LowestFirst(
             [cat |-> r.cat,
              allocated |-> res.allocated + (IF r.ok THEN 1 ELSE 0),
              blocked |-> res.blocked + (IF r.ok THEN 0 ELSE 1),
              total |-> res.total],
             prioritized_orders, i + 1)

\* The loop of process_allocations from the i-th prioritized order on
RECURSIVE AllocateFrom(_, _, _)
AllocateFrom(res, prioritized_orders, i) ==
  IF i > Len(prioritized_orders) THEN res
  ELSE LET r == allocate_resources(res.cat, prioritized_orders[i])
       IN  AllocateFrom(
             [cat |-> r.cat,
              allocated |-> res.allocated + (IF r.ok THEN 1 ELSE 0),
              blocked |-> res.blocked + (IF r.ok THEN 0 ELSE 1),
              total |-> res.total],
             prioritized_orders, i + 1)

process_allocations(cat) ==
  LET prioritized_orders == prioritize_work_orders(cat.work_orders)
  IN  AllocateFrom([cat |-> cat, allocated |-> 0, blocked |-> 0,
                    total |-> Len(prioritized_orders)],
                   prioritized_orders, 1)

----------------------------------------------------------------------------
(* event_handler.py *)

\* Mutant: the operator's reference to its work order is kept
FreeOperator_KeepsRef(cat, operator_id) ==
  [cat EXCEPT !.operators[operator_id].current_status = AVAILABLE]

FreeOperator(cat, operator_id) ==
  [cat EXCEPT !.operators[operator_id] =
     [@ EXCEPT !.current_status = AVAILABLE, !.current_work_order = None]]

FreeMachine(cat, machine_id) ==
  [cat EXCEPT !.machines[machine_id] =
     [@ EXCEPT !.current_status = IDLE, !.current_work_order = None]]

\* self.engine.work_orders[machine.current_work_order] raises KeyError
BreakdownKeyError(cat, machine_id) ==
  /\ machine_id \in DOMAIN cat.machines
  /\ cat.machines[machine_id].current_work_order # None
  /\ cat.machines[machine_id].current_work_order \notin DOMAIN cat.work_orders

\* Mutant: without an alternative the operator is not released
handle_machine_breakdown_KeepsOperator(cat, machine_id) ==
  IF machine_id \notin DOMAIN cat.machines THEN cat
  ELSE
    LET c1 == [cat EXCEPT !.machines[machine_id].current_status = BREAKDOWN]
        wid == c1.machines[machine_id].current_work_order
    IN  IF wid = None \/ BreakdownKeyError(cat, machine_id) THEN c1
        ELSE
          LET operator_id == c1.work_orders[wid].assigned_operator
              c2 == [c1 EXCEPT !.work_orders[wid] =
                       [@ EXCEPT !.assigned_machine = None, !.status = BLOCKED]]
              alternative == find_best_allocation(c2, c2.work_orders[wid])
          IN  IF alternative.found
              THEN LET c3 == IF operator_id # None
                                /\ operator_id # alternative.operator
                             THEN FreeOperator(c2, operator_id)
                             ELSE c2
                   IN  allocate_resources(c3, wid).cat
              ELSE IF operator_id # None
                   THEN process_allocations(c2).cat
                   ELSE c2

\* The catalog when the handler returns, or when it raises KeyError
handle_machine_breakdown(cat, machine_id) ==
  IF machine_id \notin DOMAIN cat.machines THEN cat
  ELSE
    LET c1 == [cat EXCEPT !.machines[machine_id].current_status = BREAKDOWN]
        wid == c1.machines[machine_id].current_work_order
    IN  IF wid = None \/ BreakdownKeyError(cat, machine_id) THEN c1
        ELSE
          LET operator_id == c1.work_orders[wid].assigned_operator
              c2 == [c1 EXCEPT !.work_orders[wid] =
                       [@ EXCEPT !.assigned_machine = None, !.status = BLOCKED]]
              alternative == find_best_allocation(c2, c2.work_orders[wid])
          IN  IF alternative.found
              THEN LET c3 == IF operator_id # None
                                /\ operator_id # alternative.operator
                             THEN FreeOperator(c2, operator_id)
                             ELSE c2
                   IN  allocate_resources(c3, wid).cat
              ELSE IF operator_id # None
                   THEN process_allocations(FreeOperator(c2, operator_id)).cat
                   ELSE c2

\* Mutant: the machine's reference to its work order is cleared
handle_machine_maintenance_Clears(cat, machine_id) ==
  IF machine_id \notin DOMAIN cat.machines THEN cat
  ELSE [cat EXCEPT !.machines[machine_id] =
          [@ EXCEPT !.current_status = MAINTENANCE, !.last_maintenance = Now,
                    !.current_work_order = None]]

handle_machine_maintenance(cat, machine_id) ==
  IF machine_id \notin DOMAIN cat.machines THEN cat
  ELSE [cat EXCEPT !.machines[machine_id] =
          [@ EXCEPT !.current_status = MAINTENANCE, !.last_maintenance = Now]]

\* Mutant: the bulk pass is never run
handle_operator_available_NoPass(cat, operator_id) ==
  IF operator_id \notin DOMAIN cat.operators THEN cat
  ELSE FreeOperator(cat, operator_id)

handle_operator_available(cat, operator_id) ==
  IF operator_id \notin DOMAIN cat.operators THEN cat
  ELSE
    LET c1 == FreeOperator(cat, operator_id)
        pending_count ==
          Cardinality({w \in DOMAIN c1.work_orders :
                         c1.work_orders[w].status = PENDING})
    IN  IF pending_count > 0 THEN process_allocations(c1).cat ELSE c1

\* The loop ends at a requirement whose material the catalog does not hold
RECURSIVE ConsumeMaterials(_, _, _)
ConsumeMaterials(mats, reqs, i) ==
  IF i > Len(reqs) THEN mats
  ELSE IF reqs[i].material_id \notin DOMAIN mats THEN mats
  ELSE ConsumeMaterials(
         [mats EXCEPT ![reqs[i].material_id] =
            [@ EXCEPT !.quantity_reserved = @ - reqs[i].quantity,
                      !.quantity_available = @ - reqs[i].quantity]],
         reqs, i + 1)

\* self.engine.materials[mat_req.material_id] raises KeyError
CompletionKeyError(cat, work_order_id) ==
  /\ work_order_id \in DOMAIN cat.work_orders
  /\ \E i \in 1..Len(cat.work_orders[work_order_id].required_materials) :
        cat.work_orders[work_order_id].required_materials[i].material_id
          \notin DOMAIN cat.materials

\* Mutant: the machine of the work order is not released
handle_work_order_completion_KeepsMachine(cat, work_order_id) ==
  IF work_order_id \notin DOMAIN cat.work_orders THEN cat
  ELSE
    LET c1 == [cat EXCEPT !.work_orders[work_order_id] =
                 [@ EXCEPT !.status = COMPLETED, !.completion_time = Now,
                           !.progress = 100]]
        work_order == c1.work_orders[work_order_id]
        c2 == [c1 EXCEPT !.materials =
                 ConsumeMaterials(@, work_order.required_materials, 1)]
    IN  IF CompletionKeyError(cat, work_order_id) THEN c2
        ELSE IF work_order.assigned_operator # None
        THEN handle_operator_available(c2, work_order.assigned_operator)
        ELSE c2

\* The catalog when the handler returns, or when it raises KeyError
handle_work_order_completion(cat, work_order_id) ==
  IF work_order_id \notin DOMAIN cat.work_orders THEN cat
  ELSE
    LET c1 == [cat EXCEPT !.work_orders[work_order_id] =
                 [@ EXCEPT !.status = COMPLETED, !.completion_time = Now,
                           !.progress = 100]]
        work_order == c1.work_orders[work_order_id]
        c2 == [c1 EXCEPT !.materials =
                 ConsumeMaterials(@, work_order.required_materials, 1)]
        c3 == IF work_order.assigned_operator # None
              THEN handle_operator_available(c2, work_order.assigned_operator)
              ELSE c2
    IN  IF CompletionKeyError(cat, work_order_id) THEN c2
        ELSE IF work_order.assigned_machine # None
        THEN FreeMachine(c3, work_order.assigned_machine)
        ELSE c3

Requires(wo, material_id) ==
  \E i \in 1..Len(wo.required_materials) :
     wo.required_materials[i].material_id = material_id

\* The second loop of handle_material_shortage, over affected_orders
RECURSIVE BlockAffected(_, _, _)
BlockAffected(cat, affected_orders, i) ==
  IF i > Len(affected_orders) THEN cat
  ELSE
    LET w == affected_orders[i]
        wo == cat.work_orders[w]
    IN  IF wo.status = IN_PROGRESS
        THEN LET c1 == [cat EXCEPT !.work_orders[w].status = BLOCKED]
                 c2 == IF wo.assigned_operator # None
                       THEN FreeOperator(c1, wo.assigned_operator) ELSE c1
                 c3 == IF wo.assigned_machine # None
                       THEN FreeMachine(c2, wo.assigned_machine) ELSE c2
             IN  BlockAffected(c3, affected_orders, i + 1)
        ELSE BlockAffected(cat, affected_orders, i + 1)

\* Mutant: every work order is taken as affected, whatever it requires
handle_material_shortage_AllOrders(cat, material_id) ==
  IF material_id \notin DOMAIN cat.materials THEN cat
  ELSE BlockAffected(cat, Values(WorkOrderOrder, cat.work_orders), 1)

handle_material_shortage(cat, material_id) ==
  IF material_id \notin DOMAIN cat.materials THEN cat
  ELSE
    LET affected_orders ==
          SelectSeq(Values(WorkOrderOrder, cat.work_orders),
                    LAMBDA w : Requires(cat.work_orders[w], material_id))
    IN  BlockAffected(cat, affected_orders, 1)

\* Mutant: every BLOCKED work order is unblocked, whatever it requires
handle_material_delivered_UnblocksAll(cat, material_id, quantity) ==
  IF material_id \notin DOMAIN cat.materials THEN cat
  ELSE
    LET c1 == [cat EXCEPT !.materials[material_id].quantity_available =
                            @ + quantity]
        unblocked == {w \in DOMAIN c1.work_orders :
                        c1.work_orders[w].status = BLOCKED}
        c2 == [c1 EXCEPT !.work_orders =
                 [w \in DOMAIN @ |->
                    IF w \in unblocked THEN [@[w] EXCEPT !.status = PENDING]
                    ELSE @[w]]]
    IN  IF Cardinality(unblocked) > 0 THEN process_allocations(c2).cat ELSE c2

handle_material_delivered(cat, material_id, quantity) ==
  IF material_id \notin DOMAIN cat.materials THEN cat
  ELSE
    LET c1 == [cat EXCEPT !.materials[material_id].quantity_available =
                            @ + quantity]
        unblocked == {w \in DOMAIN c1.work_orders :
                        /\ c1.work_orders[w].status = BLOCKED
                        /\ Requires(c1.work_orders[w], material_id)}
        c2 == [c1 EXCEPT !.work_orders =
                 [w \in DOMAIN @ |->
                    IF w \in unblocked THEN [@[w] EXCEPT !.status = PENDING]
                    ELSE @[w]]]
    IN  IF Cardinality(unblocked) > 0 THEN process_allocations(c2).cat ELSE c2

\* class Event; the timestamp plays no part in the order
Event(priority, event_type, data) ==
  [priority |-> priority, event_type |-> event_type, data |-> data]

\* The payload: the identifier under the key the handler reads, and the
\* quantity (data.get('quantity', 0))
Data(id, quantity) == [id |-> id, quantity |-> quantity]

\* Mutant: the comparison is reversed
EventLt_Reversed(a, b) == a.priority > b.priority

\* Event.__lt__
EventLt(a, b) == a.priority < b.priority

\* heapq._siftdown, with Python's positions: position pos is heap[pos + 1]
RECURSIVE SiftDownLoop(_, _, _, _)
SiftDownLoop(heap, startpos, pos, newitem) ==
  IF pos > startpos
  THEN LET parentpos == (pos - 1) \div 2
           parent == heap[parentpos + 1]
       IN  IF EventLt(newitem, parent)
           THEN SiftDownLoop([heap EXCEPT ![pos + 1] = parent],
                             startpos, parentpos, newitem)
           ELSE [heap EXCEPT ![pos + 1] = newitem]
  ELSE [heap EXCEPT ![pos + 1] = newitem]

siftdown(heap, startpos, pos) == SiftDownLoop(heap, startpos, pos, heap[pos + 1])

\* The loop of heapq._siftup: the smaller child moves up until a leaf is hit
RECURSIVE SiftUpLoop(_, _, _)
SiftUpLoop(heap, pos, endpos) ==
  LET childpos == 2 * pos + 1
      rightpos == childpos + 1
      smaller == IF rightpos < endpos
                    /\ ~EventLt(heap[childpos + 1], heap[rightpos + 1])
                 THEN rightpos ELSE childpos
  IN  IF childpos < endpos
      THEN SiftUpLoop([heap EXCEPT ![pos + 1] = heap[smaller + 1]],
                      smaller, endpos)
      ELSE [heap |-> heap, pos |-> pos]

siftup(heap, pos) ==
  LET newitem == heap[pos + 1]
      leaf == SiftUpLoop(heap, pos, Len(heap))
  IN  siftdown([leaf.heap EXCEPT ![leaf.pos + 1] = newitem], pos, leaf.pos)

heappush(heap, item) == siftdown(Append(heap, item), 0, Len(heap))

\* heapq.heappop of a heap that is not empty: the item and the heap left
heappop(heap) ==
  LET lastelt == heap[Len(heap)]
      rest == SubSeq(heap, 1, Len(heap) - 1)
  IN  IF rest # <<>>
      THEN [item |-> rest[1], heap |-> siftup([rest EXCEPT ![1] = lastelt], 0)]
      ELSE [item |-> lastelt, heap |-> rest]

\* Mutant: an unknown event type is an error
dispatch_UnknownRaises(cat, event) ==
  LET id == event.data.id
      returns(handler, c) == [handler |-> handler, cat |-> c, raised |-> FALSE]
  IN  CASE event.event_type = "machine_breakdown" ->
             [handler |-> "handle_machine_breakdown",
              cat |-> handle_machine_breakdown(cat, id),
              raised |-> BreakdownKeyError(cat, id)]
        [] event.event_type = "machine_maintenance" ->
             returns("handle_machine_maintenance",
                     handle_machine_maintenance(cat, id))
        [] event.event_type = "operator_available" ->
             returns("handle_operator_available",
                     handle_operator_available(cat, id))
        [] event.event_type = "work_order_complete" ->
             [handler |-> "handle_work_order_completion",
              cat |-> handle_work_order_completion(cat, id),
              raised |-> CompletionKeyError(cat, id)]
        [] event.event_type = "material_shortage" ->
             returns("handle_material_shortage",
                     handle_material_shortage(cat, id))
        [] event.event_type = "material_delivered" ->
             returns("handle_material_delivered",
                     handle_material_delivered(cat, id, event.data.quantity))
        [] OTHER -> [handler |-> None, cat |-> cat, raised |-> TRUE]

\* The if/elif chain of process_events: the handler called, the catalog it
\* leaves, and whether a KeyError escapes it
dispatch(cat, event) ==
  LET id == event.data.id
      returns(handler, c) == [handler |-> handler, cat |-> c, raised |-> FALSE]
  IN  CASE event.event_type = "machine_breakdown" ->
             [handler |-> "handle_machine_breakdown",
              cat |-> handle_machine_breakdown(cat, id),
              raised |-> BreakdownKeyError(cat, id)]
        [] event.event_type = "machine_maintenance" ->
             returns("handle_machine_maintenance",
                     handle_machine_maintenance(cat, id))
        [] event.event_type = "operator_available" ->
             returns("handle_operator_available",
                     handle_operator_available(cat, id))
        [] event.event_type = "work_order_complete" ->
             [handler |-> "handle_work_order_completion",
              cat |-> handle_work_order_completion(cat, id),
              raised |-> CompletionKeyError(cat, id)]
        [] event.event_type = "material_shortage" ->
             returns("handle_material_shortage",
                     handle_material_shortage(cat, id))
        [] event.event_type = "material_delivered" ->
             returns("handle_material_delivered",
                     handle_material_delivered(cat, id, event.data.quantity))
        [] OTHER -> returns(None, cat)

----------------------------------------------------------------------------
(* The run: a catalog loaded as main.py's create_sample_data loads one     *)
(* (scaled down), then bulk passes and dispatched events in any order.     *)

Operator(skills, skill_levels, status, location, hourly_cost) ==
  [skills |-> skills, skill_levels |-> skill_levels, current_status |-> status,
   current_work_order |-> None, location |-> location,
   hourly_cost |-> hourly_cost]

Machine(capabilities, status, location, cycle_time, cost) ==
  [capabilities |-> capabilities, current_status |-> status,
   current_work_order |-> None, location |-> location,
   cycle_time |-> cycle_time, last_maintenance |-> None,
   operating_cost_per_hour |-> cost]

Material(quantity_available, quantity_reserved) ==
  [quantity_available |-> quantity_available,
   quantity_reserved |-> quantity_reserved]

MaterialRequirement(material_id, quantity) ==
  [material_id |-> material_id, quantity |-> quantity]

WorkOrder(priority, skills, capability, reqs, duration, deadline, status, location) ==
  [priority |-> priority, required_skills |-> skills,
   required_machine_capability |-> capability,
   required_materials |-> reqs,
   estimated_duration |-> duration, deadline |-> deadline,
   status |-> status, assigned_operator |-> None, assigned_machine |-> None,
   start_time |-> None, completion_time |-> None, location |-> location,
   progress |-> 0]

SampleOperators ==
  [OP1 |-> Operator({"welding", "assembly"}, [welding |-> 5, assembly |-> 4],
                    AVAILABLE, "Zone-A", 25),
   OP2 |-> Operator({"welding", "inspection"}, [welding |-> 3, inspection |-> 5],
                    AVAILABLE, "Zone-A", 22)]

SampleMachines ==
  [M1 |-> Machine({"welding"}, IDLE, "Zone-A", 30, 15),
   M2 |-> Machine({"welding"}, IDLE, "Zone-A", 25, 15)]

SampleWorkOrders ==
  [WO1 |-> WorkOrder(10, <<"welding", "assembly">>, "welding",
                     <<MaterialRequirement("MAT1", 1)>>, 60, 2, PENDING, "Zone-A"),
   WO2 |-> WorkOrder(9, <<"welding">>, "welding",
                     <<MaterialRequirement("MAT1", 1)>>, 75, 3, PENDING, "Zone-A")]

SampleMaterials == [MAT1 |-> Material(MaxQty, 0)]

Init ==
  /\ operators = SampleOperators
  /\ machines = SampleMachines
  /\ materials \in {[k \in DOMAIN SampleMaterials |-> Material(a, 0)] :
                      a \in 1..MaxQty}
  /\ work_orders = SampleWorkOrders
  /\ last_reallocation_time = {}
  /\ event_queue = <<>>
  /\ event_log = <<>>
  /\ pc = "idle"
  /\ ret = NoCall

\* Identifiers an event may name: those of the catalog and one absent from it
OperatorIds == DOMAIN SampleOperators \cup {"OP9"}
MachineIds == DOMAIN SampleMachines \cup {"M9"}
MaterialIds == DOMAIN SampleMaterials \cup {"MAT9"}
WorkOrderIds == DOMAIN SampleWorkOrders \cup {"WO9"}

\* Quantities stay within the bounds of the model
InBounds(cat) ==
  \A k \in DOMAIN cat.materials :
     /\ cat.materials[k].quantity_available \in -MaxQty..MaxQty
     /\ cat.materials[k].quantity_reserved \in -MaxQty..MaxQty

\* The engine's dictionaries become those of cat
SetsCatalog(cat) ==
  /\ operators' = cat.operators
  /\ machines' = cat.machines
  /\ materials' = cat.materials
  /\ work_orders' = cat.work_orders
  /\ last_reallocation_time' = cat.last_reallocation_time

\* The step that leaves the engine with catalog cat, whatever its quantities
Leaves(cat, value) ==
  /\ SetsCatalog(cat)
  /\ ret' = value
  /\ UNCHANGED <<event_queue, event_log, pc>>

\* The step that leaves the engine with catalog cat
Becomes(cat, value) == InBounds(cat) /\ Leaves(cat, value)

ProcessAllocations ==
  LET res == process_allocations(Cat)
  IN  Becomes(res.cat, NoCall)

MachineBreakdown ==
  \E id \in MachineIds :
     Becomes(handle_machine_breakdown(Cat, id), NoCall)

MachineMaintenance ==
  \E id \in MachineIds :
     Becomes(handle_machine_maintenance(Cat, id), NoCall)

OperatorAvailable ==
  \E id \in OperatorIds :
     Becomes(handle_operator_available(Cat, id), NoCall)

WorkOrderComplete ==
  \E id \in WorkOrderIds :
     Becomes(handle_work_order_completion(Cat, id), NoCall)

MaterialShortage ==
  \E id \in MaterialIds :
     Becomes(handle_material_shortage(Cat, id), NoCall)

MaterialDelivered ==
  \E id \in MaterialIds, quantity \in 0..MaxDelivered :
     Becomes(handle_material_delivered(Cat, id, quantity), NoCall)

Next ==
  \/ ProcessAllocations
  \/ MachineBreakdown
  \/ MachineMaintenance
  \/ OperatorAvailable
  \/ WorkOrderComplete
  \/ MaterialShortage
  \/ MaterialDelivered

Spec == Init /\ [][Next]_vars

\* The same run from a catalog loaded while the first operator is on break
InitShift ==
  /\ operators \in {[SampleOperators EXCEPT !["OP1"].current_status = s] :
                      s \in {AVAILABLE, BREAK}}
  /\ machines = SampleMachines
  /\ materials \in {[k \in DOMAIN SampleMaterials |-> Material(a, 0)] :
                      a \in 1..MaxQty}
  /\ work_orders = SampleWorkOrders
  /\ last_reallocation_time = {}
  /\ event_queue = <<>>
  /\ event_log = <<>>
  /\ pc = "idle"
  /\ ret = NoCall

SpecShift == InitShift /\ [][Next]_vars

----------------------------------------------------------------------------
(* Calls of the engine's query functions, on catalogs drawn from bounded   *)
(* sets.  ret records the last call: the function, its arguments and the   *)
(* value returned.                                                         *)

UnchangedCatalog ==
  UNCHANGED <<operators, machines, materials, work_orders,
              last_reallocation_time>>

\* The engine's functions are called between two drains of the event queue
UnchangedQueue == UNCHANGED <<event_queue, event_log, pc>>

\* Mutant: a check that passes takes the reservation
CheckHardConstraints_Reserving ==
  \E w \in DOMAIN work_orders, o \in DOMAIN operators, m \in DOMAIN machines :
     LET value == check_hard_constraints(materials, work_orders[w],
                                         operators[o], machines[m])
     IN  /\ ret' = Call("check_hard_constraints", <<w, o, m>>, value)
         /\ materials' = IF value.valid
                         THEN ReserveMaterials(materials,
                                work_orders[w].required_materials, 1)
                         ELSE materials
         /\ UNCHANGED <<operators, machines, work_orders, last_reallocation_time>>
         /\ UnchangedQueue

\* A call of check_hard_constraints: it assigns to nothing but its locals
CheckHardConstraints ==
  \E w \in DOMAIN work_orders, o \in DOMAIN operators, m \in DOMAIN machines :
     /\ ret' = Call("check_hard_constraints", <<w, o, m>>,
                    check_hard_constraints(materials, work_orders[w],
                                           operators[o], machines[m]))
     /\ UnchangedCatalog
     /\ UnchangedQueue

\* A call of find_best_allocation: it assigns to nothing but its locals
FindBestAllocation ==
  \E w \in DOMAIN work_orders :
     /\ ret' = Call("find_best_allocation", <<w>>,
                    find_best_allocation(Cat, work_orders[w]))
     /\ UnchangedCatalog
     /\ UnchangedQueue

PrioritizeWorkOrders ==
  /\ ret' = Call("prioritize_work_orders", <<>>,
                 prioritize_work_orders(work_orders))
  /\ UnchangedCatalog
  /\ UnchangedQueue

OperatorProfiles ==
  {Operator({"welding", "assembly"}, [welding |-> 5, assembly |-> 4], st, "Zone-A", 25) :
     st \in OperatorStatus}
  \cup {Operator({"welding"}, [welding |-> 3], st, "Zone-B", 20) :
           st \in {AVAILABLE, ASSIGNED}}
  \cup {Operator({"welding", "assembly"}, [welding |-> 4, assembly |-> 5], st, "Zone-A", 25) :
           st \in {AVAILABLE}}

MachineProfiles ==
  {Machine({"welding"}, st, "Zone-A", 30, 15) : st \in MachineStatus}
  \cup {Machine({"welding"}, st, "Zone-B", 0, 15) : st \in {IDLE, RUNNING}}
  \cup {Machine({"machining"}, st, "Zone-A", 30, 15) : st \in {IDLE}}
  \cup {Machine({"welding"}, st, "Zone-A", 150, 5) : st \in {IDLE}}

SkillLists ==
  {<<>>, <<"welding">>, <<"welding", "assembly">>, <<"assembly", "welding">>}

MaterialLists ==
  {<<>>, <<MaterialRequirement("MAT1", 1)>>,
   <<MaterialRequirement("MAT1", 1), MaterialRequirement("MAT2", 1)>>,
   <<MaterialRequirement("MAT2", 1), MaterialRequirement("MAT1", MaxQty)>>}

\* Catalogs with MAT1 at every stock level, with and without MAT2
MaterialCatalogs ==
  {[MAT1 |-> Material(a, r)] : a \in 1..MaxQty, r \in {0, 1}}
  \cup {[MAT1 |-> Material(MaxQty, r), MAT2 |-> Material(a, 0)] :
           r \in {0, 1}, a \in {0, 1}}

\* One work order, one operator, one machine: every case of the checker
InitCheck ==
  /\ operators \in {[OP1 |-> p] : p \in OperatorProfiles}
  /\ machines \in {[M1 |-> p] : p \in MachineProfiles}
  /\ materials \in MaterialCatalogs
  /\ work_orders \in
       {[WO1 |-> WorkOrder(10, sk, "welding", ms, 60, 2, PENDING, "Zone-A")] :
          sk \in SkillLists, ms \in MaterialLists}
  /\ last_reallocation_time = {}
  /\ event_queue = <<>>
  /\ event_log = <<>>
  /\ pc = "idle"
  /\ ret = NoCall

NextCheck == CheckHardConstraints \/ FindBestAllocation

SpecCheck == InitCheck /\ [][NextCheck]_vars

\* One work order, two operators, two machines: the search
InitSearch ==
  /\ operators \in {[OP1 |-> p, OP2 |-> q] :
                      p \in OperatorProfiles, q \in OperatorProfiles}
  /\ machines \in {[M1 |-> p, M2 |-> q] :
                     p \in MachineProfiles, q \in MachineProfiles}
  /\ materials \in {[MAT1 |-> Material(MaxQty, r)] : r \in {0, MaxQty}}
  /\ work_orders \in
       {[WO1 |-> WorkOrder(10, sk, "welding",
                           <<MaterialRequirement("MAT1", 1)>>, 60, 2, PENDING, loc)] :
          sk \in {<<"welding">>, <<"welding", "assembly">>},
          loc \in {"Zone-A", "Zone-B"}}
  /\ last_reallocation_time = {}
  /\ event_queue = <<>>
  /\ event_log = <<>>
  /\ pc = "idle"
  /\ ret = NoCall

SpecSearch == InitSearch /\ [][NextCheck]_vars

Priorities == {9, 10}
Deadlines == {2, 3}
Durations == {45, 60}

\* Three work orders of every priority, deadline, duration and status
InitPrioritize ==
  /\ operators = SampleOperators
  /\ machines = SampleMachines
  /\ materials = SampleMaterials
  /\ work_orders \in
       [{"WO1", "WO2", "WO3"} ->
          {WorkOrder(p, <<"welding">>, "welding", <<>>, du, dl, st, "Zone-A") :
             p \in Priorities, du \in Durations, dl \in Deadlines,
             st \in WorkOrderStatus}]
  /\ last_reallocation_time = {}
  /\ event_queue = <<>>
  /\ event_log = <<>>
  /\ pc = "idle"
  /\ ret = NoCall

SpecPrioritize == InitPrioritize /\ [][PrioritizeWorkOrders]_vars

----------------------------------------------------------------------------
(* Calls of allocate_resources and process_allocations, on catalogs drawn  *)
(* from bounded sets.  ret records the call and the value it returned.     *)

AllocateResources ==
  \E id \in WorkOrderIds :
     LET r == allocate_resources(Cat, id)
     IN  Leaves(r.cat, Call("allocate_resources", <<id>>, r.ok))

ProcessAllocationsPass ==
  LET res == process_allocations(Cat)
  IN  Leaves(res.cat,
             Call("process_allocations", <<>>,
                  [allocated |-> res.allocated, blocked |-> res.blocked,
                   total |-> res.total]))

\* Requirement lists: none, one, the same material twice, a material that
\* the catalog does not hold
AllocMaterialLists ==
  {<<>>, <<MaterialRequirement("MAT1", 1)>>,
   <<MaterialRequirement("MAT1", 1), MaterialRequirement("MAT1", 1)>>,
   <<MaterialRequirement("MAT1", 1), MaterialRequirement("MAT9", 1)>>}

\* Two work orders of every priority order, two operators, two machines, and
\* MAT1 at every stock level
InitAllocate ==
  /\ operators \in
       {[OP1 |-> Operator({"welding", "assembly"}, [welding |-> 5, assembly |-> 4],
                          st, "Zone-A", 25),
         OP2 |-> Operator({"welding"}, [welding |-> 3], AVAILABLE, loc, 20)] :
          st \in {AVAILABLE, BREAK}, loc \in {"Zone-A", "Zone-B"}}
  /\ machines \in
       {[M1 |-> Machine({"welding"}, st, "Zone-A", 30, 15),
         M2 |-> Machine({cap}, IDLE, "Zone-A", 25, 15)] :
          st \in {IDLE, MAINTENANCE}, cap \in {"welding", "machining"}}
  /\ materials \in {[MAT1 |-> Material(a, r)] : a \in 0..MaxQty, r \in {0, 1}}
  /\ work_orders \in
       {[WO1 |-> WorkOrder(p, sk, "welding", ms, 60, 2, st, "Zone-A"),
         WO2 |-> WorkOrder(9, <<"welding">>, "welding",
                           <<MaterialRequirement("MAT1", 1)>>, 75, dl, PENDING,
                           "Zone-A")] :
          p \in Priorities, sk \in {<<"welding">>, <<"welding", "assembly">>},
          ms \in AllocMaterialLists, st \in {PENDING, BLOCKED}, dl \in {1, 3}}
  /\ last_reallocation_time = {}
  /\ event_queue = <<>>
  /\ event_log = <<>>
  /\ pc = "idle"
  /\ ret = NoCall

NextAllocate == AllocateResources \/ ProcessAllocationsPass

SpecAllocate == InitAllocate /\ [][NextAllocate]_vars

----------------------------------------------------------------------------
(* The event queue: events are submitted with add_event while no drain is  *)
(* running, and process_events pops and dispatches them one at a time      *)
(* until the queue is empty or a handler raises.                           *)

\* At most MaxEvents events are submitted in a run
MaxEvents == 3

\* The sample catalog, with a second work order that requires a material
\* the catalog does not hold
EventWorkOrders ==
  [WO1 |-> SampleWorkOrders["WO1"],
   WO2 |-> WorkOrder(9, <<"welding">>, "welding",
                     <<MaterialRequirement("MAT1", 1),
                       MaterialRequirement("MAT9", 1)>>,
                     75, 3, PENDING, "Zone-A")]

\* The events submitted: the six kinds and one that is none of them, naming
\* identifiers of the catalog and identifiers absent from it
Events ==
  {Event(1, "machine_breakdown", Data(m, 0)) : m \in {"M1", "M9"}}
  \cup {Event(4, "machine_maintenance", Data(m, 0)) : m \in {"M2", "M9"}}
  \cup {Event(3, "operator_available", Data(o, 0)) : o \in {"OP1", "OP9"}}
  \cup {Event(2, "work_order_complete", Data("WO9", 0)),
        Event(4, "work_order_complete", Data("WO2", 0))}
  \cup {Event(2, "material_shortage", Data("MAT9", 0))}
  \cup {Event(3, "material_delivered", Data("MAT9", 1))}
  \cup {Event(p, "operator_break", Data("OP1", 0)) : p \in {1, 3}}

InitEvents ==
  /\ operators = SampleOperators
  /\ machines = SampleMachines
  /\ materials = SampleMaterials
  /\ work_orders = EventWorkOrders
  /\ last_reallocation_time = {}
  /\ event_queue = <<>>
  /\ event_log = <<>>
  /\ pc = "idle"
  /\ ret = NoCall

\* add_event
AddEvent ==
  /\ pc = "idle"
  /\ Len(event_log) < MaxEvents
  /\ \E event \in Events :
        /\ event_queue' = heappush(event_queue, event)
        /\ event_log' = Append(event_log, event)
  /\ ret' = NoCall
  /\ UNCHANGED pc
  /\ UnchangedCatalog

\* process_events is called
ProcessEvents ==
  /\ pc = "idle"
  /\ pc' = "process_events"
  /\ ret' = NoCall
  /\ UNCHANGED <<event_queue, event_log>>
  /\ UnchangedCatalog

\* One iteration of the loop: an event is popped and dispatched
DispatchEvent ==
  /\ pc = "process_events"
  /\ event_queue # <<>>
  /\ \E popped \in {heappop(event_queue)} :
        \E handled \in {dispatch(Cat, popped.item)} :
           /\ event_queue' = popped.heap
           /\ SetsCatalog(handled.cat)
           /\ pc' = IF handled.raised THEN "raised" ELSE pc
           /\ ret' = Call(handled.handler, <<popped.item>>, handled.raised)
  /\ UNCHANGED event_log

\* Mutant: the loop ends after any iteration
ProcessEventsReturn_Early ==
  /\ pc = "process_events"
  /\ pc' = "idle"
  /\ UNCHANGED <<event_queue, event_log, ret>>
  /\ UnchangedCatalog

\* The queue is empty: process_events returns
ProcessEventsReturn ==
  /\ pc = "process_events"
  /\ event_queue = <<>>
  /\ pc' = "idle"
  /\ UNCHANGED <<event_queue, event_log, ret>>
  /\ UnchangedCatalog

NextEvents == AddEvent \/ ProcessEvents \/ DispatchEvent \/ ProcessEventsReturn

\* DispatchEvent is enabled exactly when the loop's condition holds: heappop
\* and dispatch are total, and the step shortens the queue
DispatchEnabled == pc = "process_events" /\ event_queue # <<>>

\* The loop of process_events does not pause: weak fairness of its two
\* steps, that of DispatchEvent with its enabling condition written out
SpecEvents ==
  /\ InitEvents
  /\ [][NextEvents]_vars
  /\ ([]<>(~DispatchEnabled) \/ []<><<DispatchEvent>>_vars)
  /\ WF_vars(ProcessEventsReturn)

----------------------------------------------------------------------------
(* The material events: a catalog with two materials, one of them required *)
(* by the first work order and one, the other or both by the second; then  *)
(* bulk passes, completions, shortages and deliveries in any order.  ret   *)
(* records the handler that ran last and its arguments.                    *)

StockIds == DOMAIN materials \cup {"MAT9"}

StockRequirements ==
  {<<MaterialRequirement("MAT1", 1)>>,
   <<MaterialRequirement("MAT2", 1)>>,
   <<MaterialRequirement("MAT1", 1), MaterialRequirement("MAT2", 1)>>}

InitStock ==
  /\ operators = SampleOperators
  /\ machines = SampleMachines
  /\ materials \in {[MAT1 |-> Material(a, 0), MAT2 |-> Material(b, 0)] :
                      a \in 1..MaxQty, b \in 0..1}
  /\ work_orders \in {[SampleWorkOrders EXCEPT !["WO2"].required_materials = r] :
                        r \in StockRequirements}
  /\ last_reallocation_time = {}
  /\ event_queue = <<>>
  /\ event_log = <<>>
  /\ pc = "idle"
  /\ ret = NoCall

StockPass ==
  Becomes(process_allocations(Cat).cat, Call("process_allocations", <<>>, None))

StockCompletion ==
  \E id \in WorkOrderIds :
     Becomes(handle_work_order_completion(Cat, id),
             Call("handle_work_order_completion", <<id>>, None))

StockShortage ==
  \E id \in StockIds :
     Becomes(handle_material_shortage(Cat, id),
             Call("handle_material_shortage", <<id>>, None))

StockDelivery ==
  \E id \in StockIds, quantity \in 0..MaxDelivered :
     Becomes(handle_material_delivered(Cat, id, quantity),
             Call("handle_material_delivered", <<id, quantity>>, None))

NextStock == StockPass \/ StockCompletion \/ StockShortage \/ StockDelivery

SpecStock == InitStock /\ [][NextStock]_vars

----------------------------------------------------------------------------
(* Calls of should_reallocate.  In this specification last_reallocation_time *)
(* maps a work order to the second at which its allocation was recorded, and *)
(* the clock is an argument of the call.                                     *)

MaxDays == 2

\* Seconds within a day, around the cooldown and at the ends of the day
SecondOffsets == {0, 1, 899, 900, 901, SecondsPerDay - 1}

\* The seconds the clock may show at the call
Clock == {d * SecondsPerDay + sec : d \in 0..MaxDays, sec \in SecondOffsets}

Progresses == {0, 25, 50, 51, 75, 100}

InitReallocate ==
  /\ operators = SampleOperators
  /\ machines = SampleMachines
  /\ materials = SampleMaterials
  /\ work_orders \in {[SampleWorkOrders EXCEPT !["WO1"].progress = p] :
                        p \in Progresses}
  /\ last_reallocation_time \in {[w \in ids |-> 0] : ids \in {{}, {"WO1"}}}
  /\ event_queue = <<>>
  /\ event_log = <<>>
  /\ pc = "idle"
  /\ ret = NoCall

ShouldReallocate ==
  \E work_order_id \in DOMAIN work_orders, now \in Clock :
     /\ ret' = Call("should_reallocate", <<work_order_id, now>>,
                    should_reallocate(Cat, work_order_id, now))
     /\ UnchangedCatalog
     /\ UnchangedQueue

SpecReallocate == InitReallocate /\ [][ShouldReallocate]_vars

----------------------------------------------------------------------------
(* Calls of calculate_allocation_score on one work order, one operator and *)
(* one machine drawn from bounded sets: skill levels from 0 to 5 with and  *)
(* without a level for a required skill, both locations, cycle times and   *)
(* costs below, at and above max_cycle_time and max_cost.                  *)

ScoreLevels ==
  {[welding |-> a, assembly |-> b] : a \in {0, 3, 5}, b \in {0, 4, 5}}
  \cup {[welding |-> a] : a \in {0, 5}}

ScoreLocations == {"Zone-A", "Zone-B"}

ScoreOperators ==
  {Operator(DOMAIN levels, levels, AVAILABLE, location, hourly_cost) :
     levels \in ScoreLevels, location \in ScoreLocations,
     hourly_cost \in {0, 25, 120}}

ScoreMachines ==
  {Machine({"welding"}, IDLE, location, cycle_time, cost) :
     location \in ScoreLocations, cycle_time \in {0, 30, 120, 150},
     cost \in {0, 15}}

InitScore ==
  /\ operators \in {[OP1 |-> p] : p \in ScoreOperators}
  /\ machines \in {[M1 |-> p] : p \in ScoreMachines}
  /\ materials = SampleMaterials
  /\ work_orders \in
       {[WO1 |-> WorkOrder(10, sk, "welding", <<>>, 60, 2, PENDING, location)] :
          sk \in SkillLists, location \in ScoreLocations}
  /\ last_reallocation_time = {}
  /\ event_queue = <<>>
  /\ event_log = <<>>
  /\ pc = "idle"
  /\ ret = NoCall

\* A call of calculate_allocation_score; the value recorded is the score
\* with the four weighted terms it is the sum of
CalculateAllocationScore ==
  \E w \in DOMAIN work_orders, o \in DOMAIN operators, m \in DOMAIN machines :
     /\ ret' = Call("calculate_allocation_score", <<w, o, m>>,
                    [score |-> calculate_allocation_score(
                                 work_orders[w], operators[o], machines[m]),
                     skill_match_quality |-> SkillTerm(work_orders[w], operators[o]),
                     proximity_factor |->
                       ProximityTerm(work_orders[w], operators[o], machines[m]),
                     machine_efficiency |-> EfficiencyTerm(machines[m]),
                     cost_optimization |-> CostTerm(operators[o], machines[m])])
     /\ UnchangedCatalog
     /\ UnchangedQueue

SpecScore == InitScore /\ [][CalculateAllocationScore]_vars

----------------------------------------------------------------------------
(* Producers that call add_event concurrently.  add_event takes no lock;   *)
(* heappush compares with Event.__lt__, a Python method, and the           *)
(* interpreter may switch to another thread while it runs.  Each producer  *)
(* therefore runs heappush in steps that end inside a comparison.  Both    *)
(* implementations of heappush that an interpreter may load are modelled:  *)
(* heapq.py, which holds the new item aside and moves parents down, and    *)
(* the C module _heapq, which swaps in place and raises RuntimeError when  *)
(* the list has changed size during a comparison.  pc holds the            *)
(* implementation and the position of each producer.                       *)

MaxProducers == 2

Producers == 1..MaxProducers

HeapqImplementations == {"_heapq", "heapq.py"}

EventPriorities == {1, 2, 3}

ProducerMachines == <<"M1", "M2", "M9", "M9">>

\* The event that producer p submits
Submission(p, priority) ==
  Event(priority, "machine_breakdown", Data(ProducerMachines[p], 0))

\* An event submitted before the producers start
EarlierEvent == Event(2, "operator_available", Data("OP1", 0))

\* The locals of a producer inside add_event
Local(at, item, pos, size, parent, lt) ==
  [at |-> at, item |-> item, pos |-> pos, size |-> size, parent |-> parent,
   lt |-> lt]

InitProducers ==
  /\ operators = SampleOperators
  /\ machines = SampleMachines
  /\ materials = SampleMaterials
  /\ work_orders = SampleWorkOrders
  /\ last_reallocation_time = {}
  /\ event_queue \in {<<>>, <<EarlierEvent>>}
  /\ event_log = event_queue
  /\ pc \in {[heapq |-> impl,
               at |-> [p \in Producers |->
                         Local("start", Submission(p, priority[p]), 0, 0,
                               Submission(p, priority[p]), FALSE)]] :
               impl \in HeapqImplementations,
               priority \in [Producers -> EventPriorities]}
  /\ ret = NoCall

ParentPos(pos) == (pos - 1) \div 2

\* The locals when heappush calls __lt__ for the item at pos of heap
Comparing(local, heap, pos, newitem) ==
  [local EXCEPT !.at = "compare", !.pos = pos,
                !.parent = heap[ParentPos(pos) + 1],
                !.lt = EventLt(newitem, heap[ParentPos(pos) + 1])]

\* heappush returns and add_event appends to the log
Returns(p, heap) ==
  /\ event_queue' = heap
  /\ event_log' = Append(event_log, pc.at[p].item)
  /\ pc' = [pc EXCEPT !.at[p].at = "done"]

\* heappush goes on to its next comparison
Continues(p, heap, local) ==
  /\ event_queue' = heap
  /\ event_log' = event_log
  /\ pc' = [pc EXCEPT !.at[p] = local]

\* add_event up to the first comparison of heappush: the item is appended
\* to the list, and the sift starts from the last position
BeginPush(p) ==
  /\ pc.at[p].at = "start"
  /\ LET heap == Append(event_queue, pc.at[p].item)
         pos == Len(event_queue)
         local == [pc.at[p] EXCEPT !.size = Len(heap)]
     IN  IF pos > 0
         THEN Continues(p, heap, Comparing(local, heap, pos, local.item))
         ELSE Returns(p, heap)
  /\ UnchangedCatalog
  /\ ret' = ret

\* _heapq.heappush from the return of a comparison to the next one
ResumeC(p) ==
  LET local == pc.at[p]
      pos == local.pos
      parentpos == ParentPos(pos)
      swapped == [event_queue EXCEPT ![parentpos + 1] = event_queue[pos + 1],
                                     ![pos + 1] = event_queue[parentpos + 1]]
  IN  IF local.size # Len(event_queue)
      THEN /\ pc' = [pc EXCEPT !.at[p].at = "raised"]
           /\ UNCHANGED <<event_queue, event_log>>
      ELSE IF ~local.lt THEN Returns(p, event_queue)
      ELSE IF parentpos > 0
      THEN Continues(p, swapped,
                     Comparing(local, swapped, parentpos, swapped[parentpos + 1]))
      ELSE Returns(p, swapped)

\* heapq.py's heappush from the return of a comparison to the next one
ResumePy(p) ==
  LET local == pc.at[p]
      pos == local.pos
      parentpos == ParentPos(pos)
      moved == [event_queue EXCEPT ![pos + 1] = local.parent]
  IN  IF ~local.lt
      THEN Returns(p, [event_queue EXCEPT ![pos + 1] = local.item])
      ELSE IF parentpos > 0
      THEN Continues(p, moved, Comparing(local, moved, parentpos, local.item))
      ELSE Returns(p, [moved EXCEPT ![parentpos + 1] = local.item])

ResumePush(p) ==
  /\ pc.at[p].at = "compare"
  /\ IF pc.heapq = "_heapq" THEN ResumeC(p) ELSE ResumePy(p)
  /\ UnchangedCatalog
  /\ ret' = ret

NextProducers == \E p \in Producers : BeginPush(p) \/ ResumePush(p)

SpecProducers == InitProducers /\ [][NextProducers]_vars

----------------------------------------------------------------------------
(* Work orders allocated one at a time with allocate_resources, so that a  *)
(* work order completes while another is still PENDING.                    *)

\* The sample catalog, with a second machine that may lack the capability
\* the work orders require
InitSingle ==
  /\ operators = SampleOperators
  /\ machines \in {[SampleMachines EXCEPT !["M2"].capabilities = {cap}] :
                     cap \in {"welding", "machining"}}
  /\ materials \in {[k \in DOMAIN SampleMaterials |-> Material(a, 0)] :
                      a \in 1..MaxQty}
  /\ work_orders = SampleWorkOrders
  /\ last_reallocation_time = {}
  /\ event_queue = <<>>
  /\ event_log = <<>>
  /\ pc = "idle"
  /\ ret = NoCall

NextSingle == AllocateResources \/ StockCompletion

SpecSingle == InitSingle /\ [][NextSingle]_vars

----------------------------------------------------------------------------
(* Properties of the run *)

\* C1: every material has 0 <= quantity_reserved <= quantity_available in
\* every state reached by bulk passes and processed events.
C1_MaterialInvariant ==
  \A k \in DOMAIN materials :
     /\ 0 <= materials[k].quantity_reserved
     /\ materials[k].quantity_reserved <= materials[k].quantity_available

\* C2: every IN_PROGRESS work order has an assigned operator that is ASSIGNED
\* to it and an assigned machine that is RUNNING it.
C2_InProgressConsistent ==
  \A w \in DOMAIN work_orders :
     work_orders[w].status = IN_PROGRESS =>
       /\ work_orders[w].assigned_operator \in DOMAIN operators
       /\ work_orders[w].assigned_machine \in DOMAIN machines
       /\ operators[work_orders[w].assigned_operator].current_status = ASSIGNED
       /\ operators[work_orders[w].assigned_operator].current_work_order = w
       /\ machines[work_orders[w].assigned_machine].current_status = RUNNING
       /\ machines[work_orders[w].assigned_machine].current_work_order = w

\* C3: no operator and no machine is assigned to two different IN_PROGRESS
\* work orders.
C3_AtMostOneActive ==
  \A v, w \in DOMAIN work_orders :
     /\ v # w
     /\ work_orders[v].status = IN_PROGRESS
     /\ work_orders[w].status = IN_PROGRESS
     => /\ work_orders[v].assigned_operator # work_orders[w].assigned_operator
        /\ work_orders[v].assigned_machine # work_orders[w].assigned_machine

\* C4: an operator's current_work_order is set if and only if its status is
\* ASSIGNED.
C4_OperatorRefIffAssigned ==
  \A o \in DOMAIN operators :
     operators[o].current_work_order # None
       <=> operators[o].current_status = ASSIGNED

\* C4's case: one operator is assigned, and another was released from a work
\* order that a disruption blocked.
C4_Witness ==
  \E o, p \in DOMAIN operators, w \in DOMAIN work_orders :
     /\ operators[o].current_status = ASSIGNED
     /\ operators[o].current_work_order # None
     /\ work_orders[w].status = BLOCKED
     /\ work_orders[w].assigned_operator = p
     /\ operators[p].current_status = AVAILABLE
     /\ operators[p].current_work_order = None

\* C5: a machine's current_work_order is set if and only if its status is
\* RUNNING.
C5_MachineRefIffRunning ==
  \A m \in DOMAIN machines :
     machines[m].current_work_order # None
       <=> machines[m].current_status = RUNNING

\* The transitions of a work order's status that the lifecycle allows
AllowedTransition(a, b) ==
  \/ a = PENDING /\ b = IN_PROGRESS
  \/ a \in {PENDING, IN_PROGRESS} /\ b = BLOCKED
  \/ a = BLOCKED /\ b = PENDING
  \/ b = COMPLETED

\* The statuses reached from the statuses of s by at most n allowed transitions
RECURSIVE ReachedIn(_, _)
ReachedIn(s, n) ==
  IF n = 0 THEN s
  ELSE ReachedIn(s \cup {b \in WorkOrderStatus :
                           \E a \in s : AllowedTransition(a, b)}, n - 1)

AllowedPath(a, b) == b \in ReachedIn({a}, Cardinality(WorkOrderStatus))

\* C6: a work order's status changes only along the allowed transitions (a
\* handler's step, which may take several, follows a path of them).
C6_StatusTransitions ==
  [][\A w \in DOMAIN work_orders :
       AllowedPath(work_orders[w].status, work_orders'[w].status)]_vars

----------------------------------------------------------------------------
(* Properties of the query functions *)

IsCall(fn) == ret.fn = fn

SkillsOk(wo, op) ==
  \A i \in 1..Len(wo.required_skills) : wo.required_skills[i] \in op.skills

CapabilityOk(wo, m) == wo.required_machine_capability \in m.capabilities

MaterialMissing(req) == req.material_id \notin DOMAIN materials

MaterialOk(req) ==
  /\ ~MaterialMissing(req)
  /\ materials[req.material_id].quantity_available
       - materials[req.material_id].quantity_reserved >= req.quantity

MaterialsOk(wo) ==
  \A i \in 1..Len(wo.required_materials) : MaterialOk(wo.required_materials[i])

ResourcesFree(op, m) == op.current_status = AVAILABLE /\ m.current_status = IDLE

Least(S) == CHOOSE i \in S : \A j \in S : i <= j

\* C7: check_hard_constraints passes iff the skills, the capability, the
\* materials and the resources' availability all hold; the reason is that of
\* the first failing check in this order, and a missing material is reported
\* differently from an insufficient quantity.
C7_CheckerContract ==
  IsCall("check_hard_constraints") =>
    LET wo == work_orders[ret.args[1]]
        op == operators[ret.args[2]]
        m == machines[ret.args[3]]
        reason == ret.value.reason
        skill_i == Least({i \in 1..Len(wo.required_skills) :
                           wo.required_skills[i] \notin op.skills})
        req == wo.required_materials[
                 Least({i \in 1..Len(wo.required_materials) :
                          ~MaterialOk(wo.required_materials[i])})]
    IN  /\ ret.value.valid <=> /\ SkillsOk(wo, op)
                               /\ CapabilityOk(wo, m)
                               /\ MaterialsOk(wo)
                               /\ ResourcesFree(op, m)
        /\ ret.value.valid <=> reason = AllSatisfied
        /\ ~SkillsOk(wo, op) =>
             reason = Reason("operator_missing_skill", wo.required_skills[skill_i])
        /\ SkillsOk(wo, op) /\ ~CapabilityOk(wo, m) =>
             reason.tag = "machine_lacks_capability"
        /\ SkillsOk(wo, op) /\ CapabilityOk(wo, m) /\ ~MaterialsOk(wo) =>
             /\ reason.arg = req.material_id
             /\ reason.tag = IF MaterialMissing(req) THEN "material_not_found"
                              ELSE "insufficient_material"
        /\ SkillsOk(wo, op) /\ CapabilityOk(wo, m) /\ MaterialsOk(wo)
             /\ ~ResourcesFree(op, m) =>
             reason.tag = IF op.current_status # AVAILABLE
                          THEN "operator_not_available" ELSE "machine_not_idle"

\* C7's case: a missing material is reported although an earlier material
\* was sufficient and the resources are not free.
C7_Witness ==
  /\ IsCall("check_hard_constraints")
  /\ ret.value.reason.tag = "material_not_found"
  /\ Len(work_orders[ret.args[1]].required_materials) = 2
  /\ ret.value.reason.arg = work_orders[ret.args[1]].required_materials[2].material_id
  /\ ~ResourcesFree(operators[ret.args[2]], machines[ret.args[3]])

PassingPairs(wo) ==
  {p \in (DOMAIN operators) \X (DOMAIN machines) :
     /\ operators[p[1]].current_status = AVAILABLE
     /\ machines[p[2]].current_status = IDLE
     /\ check_hard_constraints(materials, wo, operators[p[1]], machines[p[2]]).valid}

\* C9: find_best_allocation returns a passing pair of an AVAILABLE operator
\* and an IDLE machine whose score is at least that of every passing pair,
\* and returns no allocation iff no pair passes.
C9_BestAllocation ==
  IsCall("find_best_allocation") =>
    LET wo == work_orders[ret.args[1]]
        best == ret.value
    IN  /\ best.found <=> PassingPairs(wo) # {}
        /\ best.found =>
             /\ <<best.operator, best.machine>> \in PassingPairs(wo)
             /\ best.score = calculate_allocation_score(
                                wo, operators[best.operator], machines[best.machine])
             /\ \A p \in PassingPairs(wo) :
                   best.score >= calculate_allocation_score(
                                   wo, operators[p[1]], machines[p[2]])

\* C9's case: several pairs pass, with different scores, and the one returned
\* is not the first of the iteration.
C9_Witness ==
  /\ IsCall("find_best_allocation")
  /\ ret.value.found
  /\ <<ret.value.operator, ret.value.machine>> # <<"OP1", "M1">>
  /\ <<"OP1", "M1">> \in PassingPairs(work_orders[ret.args[1]])
  /\ ret.value.score > calculate_allocation_score(
                          work_orders[ret.args[1]], operators["OP1"], machines["M1"])

PendingOrders == {w \in DOMAIN work_orders : work_orders[w].status = PENDING}

\* C10 as amended: prioritize_work_orders returns exactly the PENDING work
\* orders, each once, by priority descending, then deadline ascending, then
\* duration ascending; the output is strictly priority-descending when the
\* priorities of the PENDING orders are pairwise distinct.
C10_Prioritized ==
  IsCall("prioritize_work_orders") =>
    LET out == ret.value
        wo(i) == work_orders[out[i]]
    IN  /\ Range(out) = PendingOrders
        /\ Len(out) = Cardinality(PendingOrders)
        /\ \A i, j \in 1..Len(out) :
              i < j =>
                /\ wo(i).priority >= wo(j).priority
                /\ wo(i).priority = wo(j).priority =>
                     wo(i).deadline <= wo(j).deadline
                /\ wo(i).priority = wo(j).priority
                     /\ wo(i).deadline = wo(j).deadline =>
                     wo(i).estimated_duration <= wo(j).estimated_duration
        /\ (\A v, w \in PendingOrders :
               v # w => work_orders[v].priority # work_orders[w].priority)
             => \A i, j \in 1..Len(out) : i < j => wo(i).priority > wo(j).priority

\* C10's case: three PENDING orders, two of them of one priority and of
\* different deadlines.
C10_Witness ==
  /\ IsCall("prioritize_work_orders")
  /\ Len(ret.value) = 3
  /\ work_orders[ret.value[1]].priority > work_orders[ret.value[2]].priority
  /\ work_orders[ret.value[2]].priority = work_orders[ret.value[3]].priority
  /\ work_orders[ret.value[2]].deadline < work_orders[ret.value[3]].deadline

\* C10 as stated: for orders with identical deadlines the output is strictly
\* priority-descending.
C10_StrictWhenSameDeadline ==
  IsCall("prioritize_work_orders") =>
    LET out == ret.value
        wo(i) == work_orders[out[i]]
    IN  (\A i, j \in 1..Len(out) : wo(i).deadline = wo(j).deadline)
          => \A i, j \in 1..Len(out) : i < j => wo(i).priority > wo(j).priority

----------------------------------------------------------------------------
(* Properties of allocate_resources and process_allocations *)

\* The catalog but for ret: what a call may change
UnchangedResources ==
  /\ operators' = operators
  /\ machines' = machines
  /\ materials' = materials
  /\ last_reallocation_time' = last_reallocation_time

\* The step is a call of allocate_resources for work order w
Attempted(w) == ret'.fn = "allocate_resources" /\ ret'.args = <<w>>

\* C11: when allocate_resources succeeds for a PENDING work order, the
\* chosen pair is an AVAILABLE operator and an IDLE machine that pass the
\* checker; every material's quantity_reserved grows by exactly the quantity
\* the order requires of it; the order becomes IN_PROGRESS on the pair, the
\* operator ASSIGNED and the machine RUNNING with current_work_order set to
\* the order; an allocation timestamp is recorded; nothing else changes.
C11_AllocationCommitted ==
  [][\A w \in DOMAIN work_orders :
       (Attempted(w) /\ ret'.value = TRUE /\ work_orders[w].status = PENDING)
       => \E p \in PassingPairs(work_orders[w]) :
            /\ work_orders' =
                 [work_orders EXCEPT ![w] =
                    [@ EXCEPT !.status = IN_PROGRESS,
                              !.assigned_operator = p[1],
                              !.assigned_machine = p[2],
                              !.start_time = Now]]
            /\ operators' =
                 [operators EXCEPT ![p[1]] =
                    [@ EXCEPT !.current_status = ASSIGNED,
                              !.current_work_order = w]]
            /\ machines' =
                 [machines EXCEPT ![p[2]] =
                    [@ EXCEPT !.current_status = RUNNING,
                              !.current_work_order = w]]
            /\ materials' =
                 [k \in DOMAIN materials |->
                    [materials[k] EXCEPT !.quantity_reserved =
                       @ + RequiredQuantity(work_orders[w].required_materials, k)]]
            /\ last_reallocation_time' = last_reallocation_time \cup {w}]_vars

\* C11's case: an allocation has succeeded for an order that requires a
\* material twice, while the other order is still PENDING and the other
\* operator and machine are untouched.
C11_Witness ==
  /\ ret = Call("allocate_resources", <<"WO1">>, TRUE)
  /\ work_orders["WO1"].status = IN_PROGRESS
  /\ Len(work_orders["WO1"].required_materials) = 2
  /\ materials["MAT1"].quantity_reserved = 2
  /\ work_orders["WO2"].status = PENDING
  /\ \E o \in DOMAIN operators : operators[o].current_status = AVAILABLE
  /\ \E m \in DOMAIN machines : machines[m].current_status = IDLE

\* C12 as amended: when allocate_resources is attempted for a work order one
\* of whose requirements names a material that is missing or whose
\* unreserved quantity is below the requirement, the call returns false, no
\* material, operator or machine changes, no timestamp is recorded, and the
\* only change to the work orders is that the attempted one becomes BLOCKED.
C12_FailedAttemptOnlyBlocks ==
  [][\A w \in DOMAIN work_orders :
       (Attempted(w) /\ ~MaterialsOk(work_orders[w]))
       => /\ ret'.value = FALSE
          /\ UnchangedResources
          /\ work_orders' = [work_orders EXCEPT ![w].status = BLOCKED]]_vars

\* C12's case: an attempt has failed for want of material although an
\* AVAILABLE operator and an IDLE machine pass the other checks.
C12_Witness ==
  /\ ret = Call("allocate_resources", <<"WO1">>, FALSE)
  /\ work_orders["WO1"].status = BLOCKED
  /\ ~MaterialsOk(work_orders["WO1"])
  /\ materials["MAT1"].quantity_reserved = 1
  /\ \E o \in DOMAIN operators, m \in DOMAIN machines :
        /\ SkillsOk(work_orders["WO1"], operators[o])
        /\ CapabilityOk(work_orders["WO1"], machines[m])
        /\ ResourcesFree(operators[o], machines[m])

\* C12 as stated: when allocate_resources is attempted for a work order and
\* one of its required materials lacks sufficient unreserved quantity, no
\* quantity_reserved changes and no status changes.
C12_AllOrNothing ==
  [][\A w \in DOMAIN work_orders :
       (Attempted(w) /\ ~MaterialsOk(work_orders[w]))
       => /\ \A k \in DOMAIN materials :
                materials'[k].quantity_reserved = materials[k].quantity_reserved
          /\ \A o \in DOMAIN operators :
                operators'[o].current_status = operators[o].current_status
          /\ \A m \in DOMAIN machines :
                machines'[m].current_status = machines[m].current_status
          /\ \A v \in DOMAIN work_orders :
                work_orders'[v].status = work_orders[v].status]_vars

\* The work orders of S whose status after the step is st
Ending(S, st) == {w \in S : work_orders'[w].status = st}

\* The quantity of material k that the work orders of S require
RECURSIVE RequiredBy(_, _)
RequiredBy(S, k) ==
  IF S = {} THEN 0
  ELSE LET w == CHOOSE x \in S : TRUE
       IN  RequiredQuantity(work_orders[w].required_materials, k)
           + RequiredBy(S \ {w}, k)

\* C13: process_allocations attempts every order that is PENDING at its
\* start once, in prioritized order: each ends IN_PROGRESS (counted as
\* allocated) or BLOCKED (counted as blocked), allocated + blocked = total =
\* the number of PENDING orders at the start, no order is PENDING at the
\* return, the other orders are unchanged, the materials of each allocated
\* order are reserved once, each allocated order has a pair of its own, and
\* the first order of the prioritized list is allocated iff a pair passes
\* the checker for it at the start.
C13_PassAttemptsEveryPending ==
  [][ret'.fn = "process_allocations" =>
       LET res == ret'.value
           prioritized == prioritize_work_orders(work_orders)
       IN  /\ res.total = Cardinality(PendingOrders)
           /\ res.allocated + res.blocked = res.total
           /\ res.allocated = Cardinality(Ending(PendingOrders, IN_PROGRESS))
           /\ res.blocked = Cardinality(Ending(PendingOrders, BLOCKED))
           /\ \A w \in DOMAIN work_orders : work_orders'[w].status # PENDING
           /\ \A w \in DOMAIN work_orders \ PendingOrders :
                 work_orders'[w] = work_orders[w]
           /\ \A k \in DOMAIN materials :
                 materials'[k].quantity_reserved =
                   materials[k].quantity_reserved
                   + RequiredBy(Ending(PendingOrders, IN_PROGRESS), k)
           /\ \A w \in Ending(PendingOrders, IN_PROGRESS) :
                 /\ operators[work_orders'[w].assigned_operator].current_status
                      = AVAILABLE
                 /\ machines[work_orders'[w].assigned_machine].current_status
                      = IDLE
                 /\ \A v \in Ending(PendingOrders, IN_PROGRESS) \ {w} :
                       /\ work_orders'[v].assigned_operator
                            # work_orders'[w].assigned_operator
                       /\ work_orders'[v].assigned_machine
                            # work_orders'[w].assigned_machine
           /\ prioritized # <<>> =>
                (work_orders'[prioritized[1]].status = IN_PROGRESS
                   <=> PassingPairs(work_orders[prioritized[1]]) # {})]_vars

\* C13's case: a pass over two PENDING orders has allocated the first of the
\* prioritized list, which is not the first of the catalog, and blocked the
\* other for want of material.
C13_Witness ==
  /\ ret = Call("process_allocations", <<>>,
                [allocated |-> 1, blocked |-> 1, total |-> 2])
  /\ work_orders["WO2"].status = IN_PROGRESS
  /\ work_orders["WO1"].status = BLOCKED
  /\ work_orders["WO1"].priority = work_orders["WO2"].priority
  /\ work_orders["WO1"].required_materials = <<MaterialRequirement("MAT1", 1)>>
  /\ materials["MAT1"].quantity_available = materials["MAT1"].quantity_reserved

----------------------------------------------------------------------------
(* Properties of the event queue *)

\* The step is an iteration of process_events: ret' holds the event it
\* dispatched
Dispatched == pc = "process_events" /\ Len(event_queue') < Len(event_queue)

DispatchedEvent == ret'.args[1]

\* ret holds a call
Recorded == ret.fn # NoCall.fn

CatalogUnchanged ==
  /\ operators' = operators
  /\ machines' = machines
  /\ materials' = materials
  /\ work_orders' = work_orders
  /\ last_reallocation_time' = last_reallocation_time

\* The number of times e is in the queue q
Count(q, e) == Cardinality({i \in 1..Len(q) : q[i] = e})

\* C14: process_events dispatches in non-decreasing order of priority: the
\* event dispatched has a priority no greater than that of any event still
\* in the queue, and no smaller than that of the event dispatched before it
\* in the same drain.
C14_PriorityOrder ==
  [][Dispatched =>
       /\ \A i \in 1..Len(event_queue') :
             DispatchedEvent.priority <= event_queue'[i].priority
       /\ Recorded => ret.args[1].priority <= DispatchedEvent.priority]_vars

\* C14's case: the event submitted last is dispatched first, ahead of two
\* events of greater priority values that are still waiting.
C14_Witness ==
  /\ pc = "process_events"
  /\ Len(event_log) = 3
  /\ Recorded
  /\ ret.args[1] = event_log[3]
  /\ Len(event_queue) = 2
  /\ event_log[1].priority > event_log[3].priority
  /\ event_log[2].priority > event_log[1].priority

KnownTypes ==
  {"machine_breakdown", "machine_maintenance", "operator_available",
   "work_order_complete", "material_shortage", "material_delivered"}

HandlerOf(event_type) ==
  CASE event_type = "machine_breakdown" -> "handle_machine_breakdown"
    [] event_type = "machine_maintenance" -> "handle_machine_maintenance"
    [] event_type = "operator_available" -> "handle_operator_available"
    [] event_type = "work_order_complete" -> "handle_work_order_completion"
    [] event_type = "material_shortage" -> "handle_material_shortage"
    [] event_type = "material_delivered" -> "handle_material_delivered"
    [] OTHER -> None

\* C15: process_events terminates; each iteration takes exactly one event
\* out of the queue and dispatches it to the handler of its type; nothing is
\* added to the queue during the drain; and when process_events returns the
\* queue is empty.
C15_DrainsQueue ==
  /\ [][Dispatched =>
          /\ Len(event_queue') = Len(event_queue) - 1
          /\ \A e \in Range(event_queue) :
                Count(event_queue, e)
                  = Count(event_queue', e) + (IF e = DispatchedEvent THEN 1 ELSE 0)
          /\ Range(event_queue') \subseteq Range(event_queue)
          /\ DispatchedEvent \in Range(event_queue)
          /\ ret'.fn = HandlerOf(DispatchedEvent.event_type)]_vars
  /\ [][pc = "process_events" =>
          /\ Len(event_queue') <= Len(event_queue)
          /\ pc' = "idle" => event_queue' = <<>>]_vars
  /\ (pc = "process_events") ~> (pc # "process_events")

\* C15's case: process_events has returned with the queue empty after three
\* events were submitted, among them a breakdown and a maintenance whose
\* effects are in the catalog.
C15_Witness ==
  /\ pc = "idle"
  /\ event_queue = <<>>
  /\ Len(event_log) = 3
  /\ Recorded
  /\ machines["M1"].current_status = BREAKDOWN
  /\ machines["M2"].current_status = MAINTENANCE

\* C16: an event whose type is none of the six kinds changes nothing in the
\* catalog, raises no error and does not stop the drain: the loop goes on,
\* and the events left in the queue are processed.
C16_UnknownEventIgnored ==
  /\ [][(Dispatched /\ DispatchedEvent.event_type \notin KnownTypes) =>
          /\ CatalogUnchanged
          /\ ret'.value = FALSE
          /\ ret'.fn = None
          /\ pc' = "process_events"]_vars
  /\ (pc = "process_events" /\ Recorded
        /\ ret.args[1].event_type \notin KnownTypes)
       ~> (event_queue = <<>> \/ pc = "raised")

\* C16's case: an unknown event has been dispatched while two other events
\* are still in the queue.
C16_Witness ==
  /\ pc = "process_events"
  /\ Recorded
  /\ ret.args[1].event_type = "operator_break"
  /\ ret.value = FALSE
  /\ Len(event_queue) = 2

\* The event names an identifier that the catalog does not hold: in its
\* payload, as the current work order of its machine, or as a material that
\* its work order requires
ReferencesAbsent(event) ==
  LET id == event.data.id
  IN  \/ /\ event.event_type \in {"machine_breakdown", "machine_maintenance"}
         /\ id \notin DOMAIN machines
      \/ /\ event.event_type = "machine_breakdown"
         /\ id \in DOMAIN machines
         /\ machines[id].current_work_order # None
         /\ machines[id].current_work_order \notin DOMAIN work_orders
      \/ /\ event.event_type = "operator_available"
         /\ id \notin DOMAIN operators
      \/ /\ event.event_type = "work_order_complete"
         /\ id \notin DOMAIN work_orders
      \/ /\ event.event_type = "work_order_complete"
         /\ id \in DOMAIN work_orders
         /\ \E i \in 1..Len(work_orders[id].required_materials) :
               work_orders[id].required_materials[i].material_id
                 \notin DOMAIN materials
      \/ /\ event.event_type \in {"material_shortage", "material_delivered"}
         /\ id \notin DOMAIN materials

\* C17: when an identifier referenced while handling an event is absent from
\* the catalog, the handler changes nothing in the catalog, no error escapes
\* process_events, and the drain goes on.
C17_NotFoundIsNoOp ==
  [][(Dispatched /\ ReferencesAbsent(DispatchedEvent)) =>
       /\ CatalogUnchanged
       /\ ret'.value = FALSE
       /\ pc' = "process_events"]_vars

----------------------------------------------------------------------------
(* Properties of the breakdown and maintenance handlers, as properties of a *)
(* step of the run that leaves the catalog the handler makes                *)

\* The step handles machine_breakdown for machine m, which is running w
BreakdownOfRunning(m, w) ==
  /\ machines[m].current_status = RUNNING
  /\ machines[m].current_work_order = w
  /\ work_orders[w].status = IN_PROGRESS
  /\ work_orders[w].assigned_machine = m
  /\ Cat' = handle_machine_breakdown(Cat, m)

\* No machine other than m is IDLE with the capability that w requires
NoSubstitute(m, w) ==
  \A n \in DOMAIN machines \ {m} :
     ~(machines[n].current_status = IDLE /\ CapabilityOk(work_orders[w], machines[n]))

C19_BreakdownWithAlternative ==
  [][\A m \in DOMAIN machines, w \in DOMAIN work_orders :
       (BreakdownOfRunning(m, w) /\ PassingPairs(work_orders[w]) # {}) =>
         LET o == work_orders[w].assigned_operator
             new_o == work_orders'[w].assigned_operator
             new_m == work_orders'[w].assigned_machine
         IN  /\ machines'[m].current_status = BREAKDOWN
             /\ work_orders'[w].status = IN_PROGRESS
             /\ new_m \in DOMAIN machines \ {m}
             /\ machines'[new_m].current_status = RUNNING
             /\ machines'[new_m].current_work_order = w
             /\ new_o \in DOMAIN operators
             /\ operators'[new_o].current_status = ASSIGNED
             /\ operators'[new_o].current_work_order = w
             /\ (o # None /\ o # new_o) =>
                  /\ operators'[o].current_status = AVAILABLE
                  /\ operators'[o].current_work_order = None
             /\ \A k \in DOMAIN materials :
                   materials'[k].quantity_reserved = materials[k].quantity_reserved]_vars

\* C20: handling machine_maintenance for an existing machine sets that
\* machine's status to MAINTENANCE and its last-maintenance timestamp, and
\* changes nothing else: not the machine's current_work_order, no other
\* machine, no work order, no operator, no material.
C20_MaintenanceFrame ==
  [][\A m \in DOMAIN machines :
       Cat' = handle_machine_maintenance(Cat, m) =>
         /\ machines' = [machines EXCEPT ![m] =
                           [@ EXCEPT !.current_status = MAINTENANCE,
                                     !.last_maintenance = Now]]
         /\ operators' = operators
         /\ materials' = materials
         /\ work_orders' = work_orders
         /\ last_reallocation_time' = last_reallocation_time]_vars

\* C20's case: a machine has entered maintenance while running a work order,
\* which is still IN_PROGRESS on it with its operator.
C20_Witness ==
  \E m \in DOMAIN machines, w \in DOMAIN work_orders :
     /\ machines[m].current_status = MAINTENANCE
     /\ machines[m].last_maintenance = Now
     /\ machines[m].current_work_order = w
     /\ work_orders[w].status = IN_PROGRESS
     /\ work_orders[w].assigned_machine = m
     /\ operators[work_orders[w].assigned_operator].current_status = ASSIGNED

----------------------------------------------------------------------------
(* Properties of the operator, completion and material handlers *)

AnyPending == \E w \in DOMAIN work_orders : work_orders[w].status = PENDING

\* C21: handling operator_available for an existing operator sets the
\* operator AVAILABLE with no current work order and then, if and only if a
\* work order is PENDING, runs a bulk pass: the catalog after the handler is
\* the one the pass makes of the catalog with the operator freed when a work
\* order is PENDING, and otherwise differs from the catalog before only in
\* that operator.
C21_OperatorAvailable ==
  [][\A o \in DOMAIN operators :
       Cat' = handle_operator_available(Cat, o) =>
         LET freed == [operators EXCEPT ![o] =
                         [@ EXCEPT !.current_status = AVAILABLE,
                                   !.current_work_order = None]]
         IN  IF AnyPending
             THEN Cat' = process_allocations([Cat EXCEPT !.operators = freed]).cat
             ELSE /\ operators' = freed
                  /\ machines' = machines
                  /\ materials' = materials
                  /\ work_orders' = work_orders
                  /\ last_reallocation_time' = last_reallocation_time]_vars

\* C21's case: an operator that was ASSIGNED to a work order has become
\* available while no work order was PENDING: the operator is free and the
\* work order is still IN_PROGRESS in its name, on a machine that runs it.
C21_Witness ==
  \E o \in DOMAIN operators, w \in DOMAIN work_orders :
     /\ ~AnyPending
     /\ operators[o].current_status = AVAILABLE
     /\ operators[o].current_work_order = None
     /\ work_orders[w].status = IN_PROGRESS
     /\ work_orders[w].assigned_operator = o
     /\ machines[work_orders[w].assigned_machine].current_status = RUNNING
     /\ machines[work_orders[w].assigned_machine].current_work_order = w

\* C22: after work_order_complete is handled for a work order that was
\* IN_PROGRESS, the work order is COMPLETED with progress 100, the machine
\* it was assigned is IDLE with no current work order, and the operator it
\* was assigned does not name it: the operator is AVAILABLE with no current
\* work order, or ASSIGNED to another work order.
C22_CompletionReleases ==
  [][\A w \in DOMAIN work_orders :
       (work_orders[w].status = IN_PROGRESS
          /\ Cat' = handle_work_order_completion(Cat, w)) =>
         LET o == work_orders[w].assigned_operator
             m == work_orders[w].assigned_machine
         IN  /\ work_orders'[w].status = COMPLETED
             /\ work_orders'[w].progress = 100
             /\ m \in DOMAIN machines
             /\ machines'[m].current_status = IDLE
             /\ machines'[m].current_work_order = None
             /\ o \in DOMAIN operators
             /\ operators'[o].current_work_order # w
             /\ \/ /\ operators'[o].current_status = AVAILABLE
                   /\ operators'[o].current_work_order = None
                \/ /\ operators'[o].current_status = ASSIGNED
                   /\ operators'[o].current_work_order \in DOMAIN work_orders \ {w}]_vars

\* C22's case: a work order that was allocated is COMPLETED, its operator
\* and its machine are free, and the other work order is still IN_PROGRESS
\* with its own operator and machine, holding the only reservation left.
C22_Witness ==
  \E w, v \in DOMAIN work_orders :
     /\ work_orders[w].status = COMPLETED
     /\ work_orders[w].progress = 100
     /\ work_orders[w].assigned_operator # None
     /\ work_orders[w].assigned_machine # None
     /\ operators[work_orders[w].assigned_operator].current_status = AVAILABLE
     /\ operators[work_orders[w].assigned_operator].current_work_order = None
     /\ machines[work_orders[w].assigned_machine].current_status = IDLE
     /\ machines[work_orders[w].assigned_machine].current_work_order = None
     /\ work_orders[v].status = IN_PROGRESS
     /\ operators[work_orders[v].assigned_operator].current_work_order = v
     /\ machines[work_orders[v].assigned_machine].current_work_order = v
     /\ \A k \in DOMAIN materials :
           materials[k].quantity_reserved
             = RequiredQuantity(work_orders[v].required_materials, k)

\* Work order v has never been allocated and never been completed, so that
\* it has reserved nothing and consumed nothing
Untouched(v) ==
  /\ work_orders[v].assigned_operator = None
  /\ work_orders[v].assigned_machine = None
  /\ work_orders[v].status \in {PENDING, BLOCKED}

\* C23: the round trip of a work order from before its allocation to after
\* its completion takes the sum of its requirement quantities from each
\* material's quantity_available and nothing, net, from quantity_reserved.
\* At the completion of an IN_PROGRESS work order: quantity_available falls
\* by the sum of the requirements, and when no other work order has ever
\* reserved anything, the completion leaves nothing reserved.
C23_RoundTrip ==
  [][\A w \in DOMAIN work_orders :
       (work_orders[w].status = IN_PROGRESS
          /\ Cat' = handle_work_order_completion(Cat, w)) =>
         \A k \in DOMAIN materials :
            /\ materials'[k].quantity_available
                 = materials[k].quantity_available
                     - RequiredQuantity(work_orders[w].required_materials, k)
            /\ (\A v \in DOMAIN work_orders \ {w} : Untouched(v)) =>
                 materials'[k].quantity_reserved = 0]_vars

\* The step handles the event of handler fn with the arguments args
Handles(fn, args) == ret'.fn = fn /\ ret'.args = args

\* Work order w is IN_PROGRESS and requires material k
Affected(w, k) ==
  work_orders[w].status = IN_PROGRESS /\ Requires(work_orders[w], k)

\* C24: handling material_shortage for an existing material k sets every
\* IN_PROGRESS work order that requires k to BLOCKED, with its operator
\* AVAILABLE and its machine IDLE, both without a current work order; every
\* other work order (PENDING, COMPLETED, BLOCKED, or not requiring k), every
\* operator and machine that is not one of theirs, and every material
\* quantity is unchanged.
C24_ShortageFrame ==
  [][\A k \in DOMAIN materials :
       Handles("handle_material_shortage", <<k>>) =>
         /\ \A w \in DOMAIN work_orders :
               IF Affected(w, k)
               THEN /\ work_orders'[w].status = BLOCKED
                    /\ operators'[work_orders[w].assigned_operator].current_status
                         = AVAILABLE
                    /\ operators'[work_orders[w].assigned_operator].current_work_order
                         = None
                    /\ machines'[work_orders[w].assigned_machine].current_status
                         = IDLE
                    /\ machines'[work_orders[w].assigned_machine].current_work_order
                         = None
               ELSE work_orders'[w] = work_orders[w]
         /\ \A o \in DOMAIN operators :
               (\A w \in DOMAIN work_orders :
                   Affected(w, k) => work_orders[w].assigned_operator # o)
                 => operators'[o] = operators[o]
         /\ \A m \in DOMAIN machines :
               (\A w \in DOMAIN work_orders :
                   Affected(w, k) => work_orders[w].assigned_machine # m)
                 => machines'[m] = machines[m]
         /\ materials' = materials]_vars

\* C24's case: the shortage of a material has blocked the work order that
\* requires it and freed its operator and machine, while the work order that
\* requires only the other material is still IN_PROGRESS, and the
\* reservations of both are still held.
C24_Witness ==
  \E k \in DOMAIN materials, w, v \in DOMAIN work_orders :
     /\ ret.fn = "handle_material_shortage"
     /\ ret.args = <<k>>
     /\ Requires(work_orders[w], k)
     /\ work_orders[w].status = BLOCKED
     /\ work_orders[w].assigned_operator # None
     /\ operators[work_orders[w].assigned_operator].current_status = AVAILABLE
     /\ machines[work_orders[w].assigned_machine].current_status = IDLE
     /\ materials[k].quantity_reserved > 0
     /\ ~Requires(work_orders[v], k)
     /\ work_orders[v].status = IN_PROGRESS
     /\ operators[work_orders[v].assigned_operator].current_status = ASSIGNED

\* The BLOCKED work orders that require material k
BlockedOn(k) ==
  {w \in DOMAIN work_orders :
     work_orders[w].status = BLOCKED /\ Requires(work_orders[w], k)}

\* The catalog once quantity has been added to material k and the work
\* orders blocked on k are PENDING again
Delivered(k, quantity) ==
  [operators |-> operators,
   machines |-> machines,
   materials |-> [materials EXCEPT ![k].quantity_available = @ + quantity],
   work_orders |-> [w \in DOMAIN work_orders |->
                      IF w \in BlockedOn(k)
                      THEN [work_orders[w] EXCEPT !.status = PENDING]
                      ELSE work_orders[w]],
   last_reallocation_time |-> last_reallocation_time]

\* C25: handling material_delivered for an existing material k adds the
\* delivered amount to quantity_available of k and leaves quantity_reserved
\* as it is, makes PENDING exactly the BLOCKED work orders that require k,
\* and runs a bulk pass if and only if there is one: the catalog after the
\* handler is the one the pass makes of that catalog when a work order was
\* unblocked, and that catalog otherwise.  In both cases quantity_available
\* of k has grown by the delivered amount, and a work order that was not
\* unblocked keeps its status.
C25_Delivery ==
  [][\A k \in DOMAIN materials :
       (ret'.fn = "handle_material_delivered" /\ ret'.args[1] = k) =>
         LET quantity == ret'.args[2]
         IN  /\ Cat' = IF BlockedOn(k) # {}
                       THEN process_allocations(Delivered(k, quantity)).cat
                       ELSE Delivered(k, quantity)
             /\ materials'[k].quantity_available
                  = materials[k].quantity_available + quantity
             /\ BlockedOn(k) = {} =>
                  materials'[k].quantity_reserved = materials[k].quantity_reserved
             /\ \A w \in DOMAIN work_orders \ BlockedOn(k) :
                   work_orders[w].status # PENDING
                     => work_orders'[w].status = work_orders[w].status]_vars

\* C25's case: a material that the catalog had none of has been delivered;
\* the work order that requires it, blocked until then, has been allocated
\* by the pass that followed and holds the only reservation of it.
C25_Witness ==
  \E k \in DOMAIN materials, w \in DOMAIN work_orders :
     /\ ret.fn = "handle_material_delivered"
     /\ ret.args[1] = k
     /\ ret.args[2] > 0
     /\ materials[k].quantity_available = ret.args[2]
     /\ Requires(work_orders[w], k)
     /\ work_orders[w].status = IN_PROGRESS
     /\ materials[k].quantity_reserved
          = RequiredQuantity(work_orders[w].required_materials, k)
     /\ operators[work_orders[w].assigned_operator].current_work_order = w
     /\ machines[work_orders[w].assigned_machine].current_work_order = w

\* Work order w was IN_PROGRESS when a shortage blocked it: it is BLOCKED
\* and still names the operator and the machine it was working with
BlockedByShortage(w) ==
  /\ work_orders[w].status = BLOCKED
  /\ work_orders[w].assigned_operator # None
  /\ work_orders[w].assigned_machine # None

\* An AVAILABLE operator with the skills and an IDLE machine with the
\* capability that work order w requires
FreePairExists(w) ==
  /\ \E o \in DOMAIN operators :
        /\ operators[o].current_status = AVAILABLE
        /\ SkillsOk(work_orders[w], operators[o])
  /\ \E m \in DOMAIN machines :
        /\ machines[m].current_status = IDLE
        /\ CapabilityOk(work_orders[w], machines[m])

\* C26: when a work order blocked by a material_shortage requires material
\* k and a material_delivered event delivers at least the quantity of k that
\* it requires, then, if an AVAILABLE operator with the required skills and
\* an IDLE machine with the required capability exist, the work order is
\* IN_PROGRESS after the delivery has been handled.
C26_ShortageThenDelivery ==
  [][\A k \in DOMAIN materials, w \in DOMAIN work_orders :
       (/\ ret'.fn = "handle_material_delivered"
        /\ ret'.args[1] = k
        /\ BlockedByShortage(w)
        /\ Requires(work_orders[w], k)
        /\ ret'.args[2] >= RequiredQuantity(work_orders[w].required_materials, k)
        /\ FreePairExists(w))
         => work_orders'[w].status = IN_PROGRESS]_vars

\* C27: should_reallocate returns false if and only if the progress of the
\* work order exceeds 50, or an allocation is recorded for it and fewer than
\* stability_buffer_minutes minutes have gone by since, however long ago the
\* allocation was.
C27_Cooldown ==
  IsCall("should_reallocate") =>
    LET w == ret.args[1]
        now == ret.args[2]
    IN  (ret.value = FALSE)
          <=> \/ work_orders[w].progress > 50
              \/ /\ w \in DOMAIN last_reallocation_time
                 /\ now - last_reallocation_time[w] < stability_buffer_minutes * 60

\* C28: for skill levels from 0 to 5, non-negative costs and non-negative
\* cycle time, each of the four terms of calculate_allocation_score lies
\* between 0 and 1, the score is their sum with the weights 0.4, 0.3, 0.2 and
\* 0.1, and the score lies between 0 and 1.  (Terms and score are held times
\* ScoreScale, each term times its weight.)
C28_ScoreInUnitInterval ==
  IsCall("calculate_allocation_score") =>
    /\ ret.value.skill_match_quality \in 0..Weighted(skill_weight)
    /\ ret.value.proximity_factor \in 0..Weighted(proximity_weight)
    /\ ret.value.machine_efficiency \in 0..Weighted(efficiency_weight)
    /\ ret.value.cost_optimization \in 0..Weighted(cost_weight)
    /\ ret.value.score
         = ret.value.skill_match_quality + ret.value.proximity_factor
           + ret.value.machine_efficiency + ret.value.cost_optimization
    /\ Weighted(skill_weight) + Weighted(proximity_weight)
         + Weighted(efficiency_weight) + Weighted(cost_weight) = ScoreScale
    /\ ret.value.score \in 0..ScoreScale

\* C28's case: the score of a pair whose cycle time is above max_cycle_time
\* and whose cost is above max_cost, so that both terms are clamped at 0,
\* while the operator has the top level in every required skill and all
\* three are in one place: the score is 0.4 + 0.3.
C28_Witness ==
  /\ IsCall("calculate_allocation_score")
  /\ machines["M1"].cycle_time > max_cycle_time
  /\ operators["OP1"].hourly_cost + machines["M1"].operating_cost_per_hour > max_cost
  /\ ret.value.machine_efficiency = 0
  /\ ret.value.cost_optimization = 0
  /\ ret.value.skill_match_quality = Weighted(skill_weight)
  /\ ret.value.proximity_factor = Weighted(proximity_weight)
  /\ ret.value.score = Weighted(skill_weight) + Weighted(proximity_weight)

\* Every producer has left add_event, by return or by an exception
ProducersLeft == \A p \in Producers : pc.at[p].at \in {"done", "raised"}

\* The min-heap order of heapq on priorities
IsHeap(heap) ==
  \A i \in 2..Len(heap) : ~EventLt(heap[i], heap[i \div 2])

\* C29: when several producers call add_event concurrently, their writes
\* are serialized: once all have left add_event none has failed, every
\* event submitted is in the queue exactly once, the queue holds nothing
\* else but what it held before, and it is in min-heap order of priority.
C29_ProducersSerialized ==
  ProducersLeft =>
    /\ \A p \in Producers :
          /\ pc.at[p].at = "done"
          /\ Count(event_queue, pc.at[p].item) = 1
    /\ Len(event_queue) = Len(event_log)
    /\ \A i \in 1..Len(event_log) : Count(event_queue, event_log[i]) = 1
    /\ IsHeap(event_queue)

----------------------------------------------------------------------------
(* Properties of the retry of failed matches *)

\* Work order w is BLOCKED by a failed match: it has never been allocated
FailedMatch(w) ==
  /\ work_orders[w].status = BLOCKED
  /\ work_orders[w].assigned_operator = None
  /\ work_orders[w].assigned_machine = None

\* The step handles one of the events that trigger a reallocation
TriggeringEvent ==
  \/ \E o \in DOMAIN operators : Cat' = handle_operator_available(Cat, o)
  \/ \E v \in DOMAIN work_orders : Cat' = handle_work_order_completion(Cat, v)
  \/ \E k \in DOMAIN materials, quantity \in 0..MaxDelivered :
        Cat' = handle_material_delivered(Cat, k, quantity)

\* Before the step no pair passes the checker for w although its materials
\* are there; after it an AVAILABLE operator and an IDLE machine do
PairFreedFor(w) ==
  /\ PassingPairs(work_orders[w]) = {}
  /\ MaterialsOk(work_orders[w])
  /\ \E o \in DOMAIN operators, m \in DOMAIN machines :
        /\ operators'[o].current_status = AVAILABLE
        /\ machines'[m].current_status = IDLE
        /\ check_hard_constraints(materials', work_orders[w],
                                  operators'[o], machines'[m]).valid

\* C30: a work order BLOCKED because no operator or machine was free is
\* re-attempted at the next triggering event: when the handling of
\* operator_available, work_order_complete or material_delivered leaves an
\* AVAILABLE operator and an IDLE machine that pass its hard constraints,
\* the work order is IN_PROGRESS once the event has been handled.
C30_DeferredNotAbandoned ==
  [][\A w \in DOMAIN work_orders :
       (FailedMatch(w) /\ TriggeringEvent /\ PairFreedFor(w))
         => work_orders'[w].status = IN_PROGRESS]_vars

\* ---------------------------------------------------------------------------
\* C31: the tie-break of the search

\* The place of key k in an insertion order
Place(order, k) == CHOOSE i \in 1..Len(order) : order[i] = k

\* Pair p is met before pair q by the nested loops: operators outside,
\* machines inside
MetBefore(p, q) ==
  \/ Place(OperatorOrder, p[1]) < Place(OperatorOrder, q[1])
  \/ /\ p[1] = q[1]
     /\ Place(MachineOrder, p[2]) < Place(MachineOrder, q[2])

PairScore(wo, p) ==
  calculate_allocation_score(wo, operators[p[1]], machines[p[2]])

\* The passing pairs whose score no passing pair exceeds
TopPairs(wo) ==
  {p \in PassingPairs(wo) :
     \A q \in PassingPairs(wo) : PairScore(wo, p) >= PairScore(wo, q)}

\* C31: when several passing pairs share the highest score,
\* find_best_allocation returns the one met first by the loops over the
\* operators (outer) and the machines (inner) in insertion order: no other
\* pair with the highest score is met before the returned one.
C31_FirstOfTheBest ==
  (IsCall("find_best_allocation") /\ ret.value.found) =>
    LET wo == work_orders[ret.args[1]]
        chosen == <<ret.value.operator, ret.value.machine>>
    IN  /\ chosen \in TopPairs(wo)
        /\ \A q \in TopPairs(wo) : ~MetBefore(q, chosen)

\* C31's case: pairs of two operators and of two machines tie for the
\* highest score, a pair with a lower score is met before them, and the first
\* of the tied pairs is returned.
C31_Witness ==
  /\ IsCall("find_best_allocation")
  /\ ret.value.found
  /\ LET wo == work_orders[ret.args[1]]
         chosen == <<ret.value.operator, ret.value.machine>>
     IN  /\ \E q \in TopPairs(wo) : q # chosen /\ MetBefore(chosen, q)
         /\ \E q \in PassingPairs(wo) \ TopPairs(wo) : MetBefore(q, chosen)

\* ---------------------------------------------------------------------------
\* C32: events of equal priority

\* The positions of the submissions of event e in the log of add_event
Submissions(e) == {i \in 1..Len(event_log) : event_log[i] = e}

\* Every submission of e came before every submission of f
SubmittedBefore(e, f) ==
  \A i \in Submissions(e), j \in Submissions(f) : i < j

\* C32: among queued events of equal priority, process_events dispatches in
\* the order of their submission with add_event: the event dispatched was
\* not submitted after an event of the same priority that is still queued.
C32_ArrivalOrder ==
  [][Dispatched =>
       \A i \in 1..Len(event_queue') :
          (event_queue'[i].priority = DispatchedEvent.priority
             /\ event_queue'[i] # DispatchedEvent)
            => ~SubmittedBefore(event_queue'[i], DispatchedEvent)]_vars

\* ---------------------------------------------------------------------------
\* C33: what the reserved quantity accounts for

InProgressOrders == {w \in DOMAIN work_orders : work_orders[w].status = IN_PROGRESS}

\* C33: after every bulk pass and every handled event, the quantity_reserved
\* of each material is the sum of the quantities of that material required
\* by the work orders that are IN_PROGRESS (the catalog starts with nothing
\* reserved): no other work order holds a reservation and none holds its
\* reservation twice.
C33_ReservedByInProgress ==
  \A k \in DOMAIN materials :
     materials[k].quantity_reserved = RequiredBy(InProgressOrders, k)

\* ---------------------------------------------------------------------------
\* C34: COMPLETED is terminal

\* C34: once a work order is COMPLETED, no bulk pass and no event changes
\* its status, its progress, its assigned operator or its assigned machine.
C34_CompletedIsTerminal ==
  [][\A w \in DOMAIN work_orders :
       work_orders[w].status = COMPLETED =>
         /\ work_orders'[w].status = COMPLETED
         /\ work_orders'[w].progress = work_orders[w].progress
         /\ work_orders'[w].assigned_operator = work_orders[w].assigned_operator
         /\ work_orders'[w].assigned_machine = work_orders[w].assigned_machine]_vars

\* ---------------------------------------------------------------------------
\* C35: no resource is leaked

\* Work order w is IN_PROGRESS on operator o
HeldByOperator(o) ==
  \E w \in DOMAIN work_orders :
     /\ work_orders[w].status = IN_PROGRESS
     /\ work_orders[w].assigned_operator = o
     /\ operators[o].current_work_order = w

HeldByMachine(m) ==
  \E w \in DOMAIN work_orders :
     /\ work_orders[w].status = IN_PROGRESS
     /\ work_orders[w].assigned_machine = m
     /\ machines[m].current_work_order = w

\* C35: after every bulk pass and every handled event, every ASSIGNED
\* operator and every RUNNING machine is the assigned operator or machine of
\* an IN_PROGRESS work order, which is the resource's current_work_order.
C35_NoLeak ==
  /\ \A o \in DOMAIN operators :
        operators[o].current_status = ASSIGNED => HeldByOperator(o)
  /\ \A m \in DOMAIN machines :
        machines[m].current_status = RUNNING => HeldByMachine(m)

\* ---------------------------------------------------------------------------
\* C36: machines out of service

OutOfService == {BREAKDOWN, MAINTENANCE}

\* C36: a machine that is BREAKDOWN or in MAINTENANCE is never put back
\* into service: no bulk pass and no event makes it IDLE or RUNNING.
C36_OutOfServiceStays ==
  [][\A m \in DOMAIN machines :
       machines[m].current_status \in OutOfService
         => machines'[m].current_status \in OutOfService]_vars

\* ---------------------------------------------------------------------------
\* C37: a repeated completion

\* No operator and no machine changes status in the step
StatusesUnchanged ==
  /\ \A o \in DOMAIN operators :
        operators'[o].current_status = operators[o].current_status
  /\ \A m \in DOMAIN machines :
        machines'[m].current_status = machines[m].current_status

\* C37: handling work_order_complete for a work order that is already
\* COMPLETED changes no material quantity and no operator or machine status,
\* and handling it for a work order that was never allocated changes no
\* material quantity.
C37_CompletionIdempotent ==
  [][\A w \in DOMAIN work_orders :
       Cat' = handle_work_order_completion(Cat, w) =>
         /\ work_orders[w].status = COMPLETED =>
              materials' = materials /\ StatusesUnchanged
         /\ Untouched(w) => materials' = materials]_vars

\* ---------------------------------------------------------------------------
\* C38: the pair freed by a completion

\* Operator o once AVAILABLE and machine m once IDLE pass the checker for
\* work order v
FreedPairPasses(v, o, m) ==
  check_hard_constraints(
    materials, work_orders[v],
    [operators[o] EXCEPT !.current_status = AVAILABLE],
    [machines[m] EXCEPT !.current_status = IDLE]).valid

\* C38: when work_order_complete is handled for an IN_PROGRESS work order,
\* a work order that was PENDING before the event (the only one) and whose
\* hard constraints the freed operator and the freed machine satisfy
\* together is IN_PROGRESS when the handler has finished.
C38_FreedPairIsUsed ==
  [][\A w, v \in DOMAIN work_orders :
       /\ Handles("handle_work_order_completion", <<w>>)
       /\ work_orders[w].status = IN_PROGRESS
       /\ work_orders[w].assigned_operator \in DOMAIN operators
       /\ work_orders[w].assigned_machine \in DOMAIN machines
       /\ PendingOrders = {v}
       /\ FreedPairPasses(v, work_orders[w].assigned_operator,
                          work_orders[w].assigned_machine)
       => work_orders'[v].status = IN_PROGRESS]_vars

\* ---------------------------------------------------------------------------
\* C39: priority within one pass

\* The materials of work order wo are available once the work orders of
\* the set allocated, attempted before it in the pass, hold theirs
MaterialsOkAfter(wo, allocated) ==
  \A i \in 1..Len(wo.required_materials) :
     LET req == wo.required_materials[i]
     IN  /\ req.material_id \in DOMAIN materials
         /\ materials[req.material_id].quantity_available
              - (materials[req.material_id].quantity_reserved
                   + RequiredBy(allocated, req.material_id))
              >= req.quantity

\* C39: within one bulk pass, when work order A is set BLOCKED and work
\* order B, later in the prioritized order, is allocated a pair, that pair
\* did not satisfy A's hard constraints when A was attempted: the operator
\* lacks a skill A requires, or the machine lacks the capability, or the
\* materials left by the work orders allocated before A do not cover A's
\* requirements (the pair itself was free at that moment).
C39_PriorityRespected ==
  [][ret'.fn = "process_allocations" =>
       LET prioritized == prioritize_work_orders(work_orders)
       IN  \A i, j \in 1..Len(prioritized) :
              (/\ i < j
               /\ work_orders'[prioritized[i]].status = BLOCKED
               /\ work_orders'[prioritized[j]].status = IN_PROGRESS) =>
                LET A == work_orders[prioritized[i]]
                    o == work_orders'[prioritized[j]].assigned_operator
                    m == work_orders'[prioritized[j]].assigned_machine
                    before == {prioritized[h] : h \in 1..(i - 1)}
                IN  /\ operators[o].current_status = AVAILABLE
                    /\ machines[m].current_status = IDLE
                    /\ ~(/\ SkillsOk(A, operators[o])
                         /\ CapabilityOk(A, machines[m])
                         /\ MaterialsOkAfter(A, Ending(before, IN_PROGRESS)))]_vars

\* C39's case: a pass has blocked the first work order of its prioritized
\* list, whose skills no available operator has, and has allocated the
\* second to a free operator and machine.
C39_Witness ==
  /\ ret = Call("process_allocations", <<>>,
                [allocated |-> 1, blocked |-> 1, total |-> 2])
  /\ work_orders["WO1"].status = BLOCKED
  /\ work_orders["WO1"].priority > work_orders["WO2"].priority
  /\ work_orders["WO2"].status = IN_PROGRESS
  /\ work_orders["WO2"].assigned_operator = "OP2"
  /\ ~SkillsOk(work_orders["WO1"], operators["OP2"])
  /\ CapabilityOk(work_orders["WO1"],
                  machines[work_orders["WO2"].assigned_machine])

====
